---- MODULE Spec2Model ----
(***************************************************************************)
(* Model of the GraphRAG service (services/graphrag/app): the background   *)
(* build of routers/build.py with its in-memory progress registry, the     *)
(* graph store (Neo4j) and the vector store (Milvus) it writes, the direct *)
(* ingest / delete / import endpoints, and the NL-to-Cypher query path.    *)
(*                                                                         *)
(* The service runs on one asyncio event loop: the code between two        *)
(* `await`s runs without interleaving.  Every action below is one such     *)
(* block of a handler or of a background task.                             *)
(***************************************************************************)
EXTENDS Integers, Sequences, FiniteSets, Bags, TLC

\* ------------------------------------------------------------------------
\* Bounds of the model
\* ------------------------------------------------------------------------
MaxTasks == 2          \* background tasks ever scheduled in one behaviour
MaxLive == 2           \* background tasks queued or running at the same time
MaxRequests == 2       \* direct store requests (ingest/delete/import) in one behaviour

NoneVal == "None"      \* Python's None (string-valued fields)
NoneId == << >>        \* None where an id or chunk id is expected
NoPage == 0            \* None where a page number is expected

\* ------------------------------------------------------------------------
\* Names: strings over a small alphabet, as sequences of characters, so that
\* toLower and substring containment are computed and not postulated.
\* ------------------------------------------------------------------------
LowerChar(c) == IF c = "A" THEN "a" ELSE IF c = "B" THEN "b" ELSE c

RECURSIVE LowerStr(_)
LowerStr(s) == IF s = <<>> THEN <<>> ELSE <<LowerChar(Head(s))>> \o LowerStr(Tail(s))

SeqsUpTo(S, n) == UNION {[1..m -> S] : m \in 0..n}

Contains(s, sub) ==
    \E i \in 1..(Len(s) - Len(sub) + 1) : SubSeq(s, i, i + Len(sub) - 1) = sub

NameA  == <<"A">>
Namea  == <<"a">>
Nameab == <<"a", "b">>
Nameb  == <<"b">>
Names  == {NameA, Namea, Nameab, Nameb}

\* ------------------------------------------------------------------------
\* The upstream platform (PostgreSQL of Dify): documents and segments.
\* ------------------------------------------------------------------------
Datasets == {"ds1", "ds2"}

\* fetch_documents_from_db: completed documents of a dataset, by created_at
DocumentsOf(d) ==
    IF d = "ds1"
    THEN << [id |-> "docA", name |-> "a.pdf", s3_key |-> "k1", extension |-> "pdf"],
            [id |-> "docB", name |-> "b.txt", s3_key |-> NoneVal, extension |-> "txt"] >>
    ELSE << >>

\* fetch_segments_from_db: completed segments of a document, by position
SegmentsOf(doc_id) ==
    IF doc_id = "docA"
    THEN << [id |-> "s1", content |-> "t1"], [id |-> "s2", content |-> ""] >>
    ELSE << [id |-> "s3", content |-> "t2"] >>

\* DoclingParser.parse_from_s3: the chunks of a PDF
DoclingChunksOf(s3_key) == << [content |-> "t1", page_number |-> 1] >>

Texts == {"t1", "t2"}

\* PDFPageExtractor.build_segment_page_map: the page of the segment at seg_idx
PageOfSegment(seg_idx) == seg_idx + 1

\* ------------------------------------------------------------------------
\* The entity extractor (services/entity_extractor.py).  The LLM's parsed
\* JSON answer to a text is [entities: names, rels: (source, target) names].
\* ------------------------------------------------------------------------
Ans0 == [entities |-> << >>, rels |-> << >>]
AnsA == [entities |-> <<Namea>>, rels |-> << [source |-> Namea, target |-> Nameab] >>]
AnsB == [entities |-> <<Namea, Nameab>>, rels |-> << [source |-> Namea, target |-> Nameab] >>]
AnsC == [entities |-> <<Nameb>>, rels |-> << [source |-> Nameb, target |-> Namea] >>]
AnsD == [entities |-> <<NameA>>, rels |-> << [source |-> Namea, target |-> Namea] >>]
AnsE == [entities |-> <<Namea, Nameab>>, rels |-> << >>]
Answers == {Ans0, AnsA, AnsB, AnsC, AnsD, AnsE}

\* _parse_entities + extract_entities: entities with a name, stamped with
\* their source; the extractor never sets Entity.id
ExtractEntities(answer, document_id, chunk_id) ==
    LET named == SelectSeq(answer.entities, LAMBDA n : n # << >>)
    IN  [i \in 1..Len(named) |->
            [id |-> NoneId, name |-> named[i],
             source_document_id |-> document_id,
             source_chunk_id |-> chunk_id,
             source_page |-> NoPage]]

\* _parse_relationships: the endpoint lookup in entity_map, exact on the
\* lower-cased name first, then substring containment in either direction
MatchesEntity(raw, entities) ==
    LET key == LowerStr(raw)
    IN  \E i \in 1..Len(entities) :
            LET k == LowerStr(entities[i].name)
            IN  k = key \/ Contains(k, key) \/ Contains(key, k)

\* _parse_relationships + extract_relationships: an item is kept when both
\* endpoints resolve; it carries the names as the LLM wrote them
ExtractRelationships(answer, entities, document_id) ==
    IF entities = << >> THEN << >>
    ELSE LET kept == SelectSeq(answer.rels,
                        LAMBDA it : MatchesEntity(it.source, entities)
                                    /\ MatchesEntity(it.target, entities))
         IN  [i \in 1..Len(kept) |->
                [id |-> NoneId,
                 source_entity_id |-> LowerStr(kept[i].source),
                 target_entity_id |-> LowerStr(kept[i].target),
                 source_entity_name |-> kept[i].source,
                 target_entity_name |-> kept[i].target,
                 type |-> "RELATED_TO",
                 source_document_id |-> document_id]]

\* extract_all
ExtractAll(answer, document_id, chunk_id) ==
    LET ents == ExtractEntities(answer, document_id, chunk_id)
    IN  [entities |-> ents,
         relationships |-> ExtractRelationships(answer, ents, document_id)]

\* ------------------------------------------------------------------------
\* Graph store (services/graph_store.py).  G is the set of Entity nodes,
\* R the set of RELATES_TO edges.
\* ------------------------------------------------------------------------
\* `e.id or f"{dataset_id}_{e.name}"`
EntityIdOf(e, dataset_id) == IF e.id # NoneId THEN e.id ELSE <<dataset_id, "_">> \o e.name

\* MERGE (e:Entity {id}) SET ...: source_page is not among the SET properties
MergeEntity(G, e, dataset_id) ==
    LET eid == EntityIdOf(e, dataset_id)
        old == {x \in G : x.id = eid}
        page == IF old = {} THEN NoPage ELSE (CHOOSE x \in old : TRUE).source_page
    IN  (G \ old) \cup
        { [id |-> eid, name |-> e.name, dataset_id |-> dataset_id,
           source_document_id |-> e.source_document_id,
           source_chunk_id |-> e.source_chunk_id,
           source_page |-> page] }

RECURSIVE create_entities_batch(_, _, _)
create_entities_batch(G, entities, dataset_id) ==
    IF entities = << >> THEN G
    ELSE create_entities_batch(MergeEntity(G, Head(entities), dataset_id),
                               Tail(entities), dataset_id)

\* one row of UNWIND $relationships: MATCH both endpoints by lower-cased
\* name within the dataset, MERGE an edge per matching pair
MergeRelationship(G, R, r, dataset_id) ==
    LET source_name == IF r.source_entity_name # NoneId THEN r.source_entity_name
                       ELSE r.source_entity_id
        target_name == IF r.target_entity_name # NoneId THEN r.target_entity_name
                       ELSE r.target_entity_id
        rid == IF r.id # NoneId THEN r.id
               ELSE source_name \o <<"_">> \o target_name \o <<"_", r.type>>
        srcs == {x \in G : x.dataset_id = dataset_id /\ LowerStr(x.name) = LowerStr(source_name)}
        tgts == {x \in G : x.dataset_id = dataset_id /\ LowerStr(x.name) = LowerStr(target_name)}
        new == { [source |-> s.id, target |-> t.id, id |-> rid, type |-> r.type,
                  dataset_id |-> dataset_id,
                  source_document_id |-> r.source_document_id] : s \in srcs, t \in tgts }
    IN  {x \in R : ~ \E n \in new : n.source = x.source /\ n.target = x.target /\ n.id = x.id}
        \cup new

RECURSIVE create_relationships_batch(_, _, _, _)
create_relationships_batch(G, R, relationships, dataset_id) ==
    IF relationships = << >> THEN R
    ELSE create_relationships_batch(G, MergeRelationship(G, R, Head(relationships), dataset_id),
                                    Tail(relationships), dataset_id)

\* MATCH (e:Entity {dataset_id}) DETACH DELETE e
delete_dataset_nodes(G, dataset_id) == {x \in G : x.dataset_id # dataset_id}

delete_dataset_edges(G, R, dataset_id) ==
    LET gone == {x.id : x \in {y \in G : y.dataset_id = dataset_id}}
    IN  {r \in R : r.source \notin gone /\ r.target \notin gone}

get_processed_chunk_ids(G, dataset_id) ==
    {x.source_chunk_id : x \in {y \in G : y.dataset_id = dataset_id /\ y.source_chunk_id # NoneId}}

\* ------------------------------------------------------------------------
\* Vector store (services/vector_store.py).  The collection is a bag of
\* rows: collection.insert appends, it does not replace a row of equal id.
\* ------------------------------------------------------------------------
VectorRow(e, dataset_id) ==
    [id |-> EntityIdOf(e, dataset_id), entity_name |-> e.name, dataset_id |-> dataset_id]

RECURSIVE insert_entities_batch(_, _, _)
insert_entities_batch(V, entities, dataset_id) ==
    IF entities = << >> THEN V
    ELSE insert_entities_batch(V (+) SetToBag({VectorRow(Head(entities), dataset_id)}),
                               Tail(entities), dataset_id)

delete_by_dataset(V, dataset_id) ==
    LET keep == {row \in BagToSet(V) : row.dataset_id # dataset_id}
    IN  [row \in keep |-> V[row]]


\* ------------------------------------------------------------------------
\* State
\* ------------------------------------------------------------------------
VARIABLES
    build_progress,   \* _build_progress: dataset_id -> progress record
    tasks,            \* the background tasks added by add_task, by task number
    graph_entities,   \* Entity nodes of the graph store
    graph_rels,       \* RELATES_TO edges of the graph store
    vector_rows,      \* rows of the Milvus collection (a bag)
    llm,              \* the extractor's answer to each text
    response,         \* the HTTP response of the last request handled
    request,          \* the ingest / delete / import request being handled
    nl_query,         \* the nl-query request being handled
    sessions,         \* the conversation sessions in Redis, by session id
    turns,            \* the conversation turns (POST /conversation/chat) in progress
    flow,             \* the conversation flow graph of the flow store
    search,           \* the search request (POST /search) being handled
    matching          \* the last match_intent query: the nodes, the message, the answer

vars == <<build_progress, tasks, graph_entities, graph_rels, vector_rows, llm, response,
          request, nl_query, sessions, turns, flow, search, matching>>

\* the variables of the search service and of the intent matching
fn_vars == <<search, matching>>

\* no search request is being handled
NoSearch == [pc |-> "idle"]

\* no match_intent query was run
NoMatching == [pc |-> "idle"]

SearchIdle == search = NoSearch /\ matching = NoMatching

\* the variables of the conversation service
conv_vars == <<sessions, turns, flow>>

MaxTurns == 2
ChatSlots == 1..MaxTurns

\* no chat request is in this slot
NoTurn == [pc |-> "idle"]

\* a flow store without nodes
NoFlow == [intents |-> {}, conditions |-> {}, requires |-> << >>, edges |-> << >>,
           actions |-> {}]

\* no session, no turn, an empty flow store
ConvIdle ==
    /\ sessions = << >>
    /\ turns = [i \in ChatSlots |-> NoTurn]
    /\ flow = NoFlow

TaskIds == 1..MaxTasks

NoTask == [pc |-> "unused"]

\* the record build_graphrag_task stores when it starts
BuildRecord(resume, use_docling) ==
    [status |-> "building", total_documents |-> 0, completed_documents |-> 0,
     total_segments |-> 0, completed_segments |-> 0, skipped_segments |-> 0,
     current_document |-> <<"Fetching documents from database...">>,
     entities_extracted |-> 0, relationships_extracted |-> 0,
     error |-> NoneVal, resume_mode |-> resume, docling_mode |-> use_docling]

\* the record update_page_mapping_task stores when it starts (no docling_mode key)
PageRecord ==
    [status |-> "building", total_documents |-> 0, completed_documents |-> 0,
     total_segments |-> 0, completed_segments |-> 0, skipped_segments |-> 0,
     current_document |-> <<"Initializing page mapping...">>,
     entities_extracted |-> 0, relationships_extracted |-> 0,
     error |-> NoneVal, resume_mode |-> FALSE]

\* a task as add_task queues it
NewTask(kind, dataset_id, resume, use_docling) ==
    [kind |-> kind, dataset_id |-> dataset_id, resume |-> resume,
     use_docling |-> use_docling, pc |-> "queued",
     docling_parser |-> FALSE, pdf_extractor |-> FALSE,
     processed_chunks |-> {}, docs |-> << >>, doc_idx |-> 0,
     source |-> "seg", chunks |-> << >>, idx |-> 0, page_map |-> FALSE,
     entities |-> << >>, relationships |-> << >>,
     total_entities |-> 0, total_relationships |-> 0, skipped_count |-> 0,
     total_updated |-> 0,
     \* history, not program state: the chunks whose entities the task wrote,
     \* and the terminal status the task stored
     wrote |-> {}, final_status |-> NoneVal]

\* a task that returned or raised: its locals are gone
EndedTask(t) ==
    [kind |-> t.kind, dataset_id |-> t.dataset_id, pc |-> t.pc, wrote |-> t.wrote,
     final_status |-> t.final_status]

Put(bp, d, rec) == [x \in (DOMAIN bp) \cup {d} |-> IF x = d THEN rec ELSE bp[x]]
Drop(bp, d) == [x \in (DOMAIN bp) \ {d} |-> bp[x]]

Running(t) == t.pc \in {"await_docs", "await_segs", "await_vec", "sleep"}
Ended(t) == t.pc \in {"done", "crashed"}

\* ------------------------------------------------------------------------
\* build_graphrag_task (routers/build.py).  A machine state m holds the
\* task's locals (m.t) and the shared state it reads and writes (m.bp, m.G,
\* m.R, m.V); f holds the outcomes of the external calls of the block.  The
\* operators run the code from one await to the next.
\* ------------------------------------------------------------------------
Missing(m) == m.t.dataset_id \notin DOMAIN m.bp

\* an exception that leaves the task: the `except` of line 358 itself
\* raises KeyError when the record is gone
Crash(m) == [m EXCEPT !.t.pc = "crashed"]

\* lines 358-361
OuterExcept(m, msg) ==
    IF Missing(m) THEN Crash(m)
    ELSE [m EXCEPT !.bp[m.t.dataset_id].status = "error",
                   !.bp[m.t.dataset_id].error = msg,
                   !.t.pc = "done", !.t.final_status = "error"]

\* lines 354-356
Finish(m) ==
    IF Missing(m) THEN OuterExcept(m, "KeyError")
    ELSE [m EXCEPT !.bp[m.t.dataset_id].status = "completed",
                   !.bp[m.t.dataset_id].current_document = <<"">>,
                   !.t.pc = "done", !.t.final_status = "completed"]

CurDoc(m) == m.t.docs[m.t.doc_idx + 1]
IsPdf(doc) == doc.extension = "pdf"
DocLabel(m, suffix) == <<m.t.doc_idx + 1, Len(m.t.docs), CurDoc(m).name, suffix>>

\* `await fetch_segments_from_db(doc_id)` of line 276
SegStart(m) == [m EXCEPT !.t.pc = "await_segs", !.t.source = "seg"]

RECURSIVE DocEnd(_, _), DocStart(_, _), ChunkLoop(_, _)

\* a KeyError on the progress record inside the chunk loop: the Docling
\* block catches it and falls back to the segments (line 270), the segment
\* loop leaves it to the document's handler (line 349)
KeyHandler(m, f) ==
    IF m.t.source = "docling" THEN SegStart(m)
    ELSE DocEnd(m, f)

\* a chunk that is left without being counted
AfterChunk_uncounted(m, f) == [m EXCEPT !.t.pc = "sleep"]

\* lines 342-347 (264-268): count the chunk, publish the totals, sleep
AfterChunk(m, f) ==
    IF Missing(m) THEN KeyHandler(m, f)
    ELSE LET d == m.t.dataset_id
         IN  [m EXCEPT !.bp[d].completed_segments = @ + 1,
                       !.bp[d].entities_extracted = m.t.total_entities,
                       !.bp[d].relationships_extracted = m.t.total_relationships,
                       !.t.pc = "sleep"]

\* line 352 and the next iteration of the document loop
DocEnd(m, f) ==
    IF Missing(m) THEN OuterExcept(m, "KeyError")
    ELSE LET m1 == [m EXCEPT !.bp[m.t.dataset_id].completed_documents = m.t.doc_idx + 1,
                             !.t.doc_idx = @ + 1]
         IN  IF m1.t.doc_idx >= Len(m1.t.docs) THEN Finish(m1) ELSE DocStart(m1, f)

\* lines 201-218 and 274-276: the start of a document
DocStart(m, f) ==
    IF Missing(m) THEN OuterExcept(m, "KeyError")
    ELSE LET d == m.t.dataset_id
             doc == CurDoc(m)
             m1 == [m EXCEPT !.bp[d].current_document = DocLabel(m, "")]
             use_docling_for_doc == m.t.docling_parser /\ doc.s3_key # NoneVal /\ IsPdf(doc)
         IN  IF use_docling_for_doc
             THEN LET m2 == [m1 EXCEPT !.bp[d].current_document = DocLabel(m, " (Docling parsing...)")]
                      docling_chunks == DoclingChunksOf(doc.s3_key)
                  IN  IF f.parse_ok
                      THEN ChunkLoop([m2 EXCEPT !.bp[d].total_segments = @ + Len(docling_chunks),
                                                !.t.source = "docling",
                                                !.t.chunks = docling_chunks,
                                                !.t.idx = 0], f)
                      ELSE SegStart(m2)
             ELSE SegStart(m1)

\* lines 291-340 (221-262): the chunk loop from chunk m.t.idx up to the
\* next await
ChunkLoop(m, f) ==
    IF m.t.idx >= Len(m.t.chunks) THEN DocEnd(m, f)
    ELSE LET d == m.t.dataset_id
             doc_id == CurDoc(m).id
             chunk == m.t.chunks[m.t.idx + 1]
             chunk_id == <<doc_id, m.t.source, m.t.idx>>
         IN  IF m.t.resume /\ chunk_id \in m.t.processed_chunks
             THEN LET m1 == [m EXCEPT !.t.skipped_count = @ + 1]
                  IN  IF Missing(m1) THEN KeyHandler(m1, f)
                      ELSE ChunkLoop([m1 EXCEPT !.bp[d].completed_segments = @ + 1,
                                                !.bp[d].skipped_segments = m1.t.skipped_count,
                                                !.t.idx = @ + 1], f)
             ELSE IF chunk.content = ""
             THEN IF Missing(m) THEN KeyHandler(m, f)
                  ELSE ChunkLoop([m EXCEPT !.bp[d].completed_segments = @ + 1,
                                           !.t.idx = @ + 1], f)
             ELSE IF ~ f.extract_ok THEN AfterChunk(m, f)
             ELSE LET ex == ExtractAll(m.llm[chunk.content], doc_id, chunk_id)
                      page_number == IF m.t.source = "docling" THEN chunk.page_number
                                     ELSE IF m.t.page_map THEN PageOfSegment(m.t.idx) ELSE NoPage
                      entities == [i \in 1..Len(ex.entities) |->
                                      [ex.entities[i] EXCEPT !.source_page = page_number]]
                  IN  IF entities = << >> THEN AfterChunk(m, f)
                      ELSE IF ~ f.graph_ok THEN AfterChunk(m, f)
                      ELSE [m EXCEPT !.G = create_entities_batch(m.G, entities, d),
                                     !.t.entities = entities,
                                     !.t.relationships = ex.relationships,
                                     !.t.wrote = @ \cup {chunk_id},
                                     !.t.pc = "await_vec"]


\* the outcomes of the external calls of one block
AllOk == [init_ok |-> TRUE, pdf_ok |-> TRUE, docling_ok |-> TRUE, fetch_ok |-> TRUE,
          parse_ok |-> TRUE, pagemap |-> "ok", extract_ok |-> TRUE, graph_ok |-> TRUE,
          vec_ok |-> TRUE, rel_ok |-> TRUE]

MachineOf(i) ==
    [t |-> tasks[i], bp |-> build_progress, G |-> graph_entities, R |-> graph_rels,
     V |-> vector_rows, llm |-> llm]

Commit(i, m) ==
    /\ tasks' = [tasks EXCEPT ![i] = IF Ended(m.t) THEN EndedTask(m.t) ELSE m.t]
    /\ build_progress' = m.bp
    /\ graph_entities' = m.G
    /\ graph_rels' = m.R
    /\ vector_rows' = m.V
    /\ UNCHANGED <<llm, conv_vars, fn_vars, response, request, nl_query>>

\* lines 141-187: from the start of the task to `await fetch_documents_from_db`
BuildBegin(m, f) ==
    LET d == m.t.dataset_id
        m0 == [m EXCEPT !.bp = Put(m.bp, d, BuildRecord(m.t.resume, m.t.use_docling))]
    IN  IF ~ f.init_ok THEN OuterExcept(m0, "store unreachable")
        ELSE LET m1 == [m0 EXCEPT !.t.pdf_extractor = f.pdf_ok,
                                  !.t.docling_parser = m.t.use_docling /\ f.docling_ok]
             IN  IF m.t.resume
                 THEN [m1 EXCEPT !.bp[d].current_document = <<"Loading processed chunks from Neo4j...">>,
                                 !.t.processed_chunks = get_processed_chunk_ids(m.G, d),
                                 !.t.pc = "await_docs"]
                 ELSE [m1 EXCEPT !.t.pc = "await_docs"]

\* lines 187-200: the documents arrive
BuildDocsReturn(m, f) ==
    LET d == m.t.dataset_id
        completed_docs == DocumentsOf(d)
    IN  IF ~ f.fetch_ok THEN OuterExcept(m, "database unreachable")
        ELSE IF Missing(m) THEN OuterExcept(m, "KeyError")
        ELSE IF completed_docs = << >>
        THEN [m EXCEPT !.bp[d].status = "error",
                       !.bp[d].error = "No completed documents found",
                       !.t.pc = "done", !.t.final_status = "error"]
        ELSE DocStart([m EXCEPT !.bp[d].total_documents = Len(completed_docs),
                                !.t.docs = completed_docs,
                                !.t.doc_idx = 0], f)

\* lines 276-291: the segments of the document arrive
BuildSegsReturn(m, f) ==
    LET d == m.t.dataset_id
        doc == CurDoc(m)
        segments == SegmentsOf(doc.id)
    IN  IF ~ f.fetch_ok THEN DocEnd(m, f)
        ELSE IF Missing(m) THEN DocEnd(m, f)
        ELSE LET m1 == [m EXCEPT !.bp[d].total_segments = @ + Len(segments),
                                 !.t.chunks = segments, !.t.idx = 0, !.t.page_map = FALSE]
                 m2 == IF m.t.pdf_extractor /\ doc.s3_key # NoneVal /\ IsPdf(doc)
                       THEN [m1 EXCEPT !.bp[d].current_document = DocLabel(m, " (extracting pages...)"),
                                       !.t.page_map = (f.pagemap = "ok")]
                       ELSE m1
             IN  ChunkLoop(m2, f)

\* lines 332-347 (254-268): the vector insert returns or raises
BuildVecReturn(m, f) ==
    LET d == m.t.dataset_id
        n == Len(m.t.entities)
        done == [m EXCEPT !.t.entities = << >>, !.t.relationships = << >>]
    IN  IF ~ f.vec_ok THEN AfterChunk(done, f)
        ELSE LET m1 == [done EXCEPT !.V = insert_entities_batch(m.V, m.t.entities, d),
                                    !.t.total_entities = @ + n]
             IN  IF m.t.relationships = << >> THEN AfterChunk(m1, f)
                 ELSE IF ~ f.rel_ok THEN AfterChunk(m1, f)
                 ELSE AfterChunk([m1 EXCEPT
                         !.R = create_relationships_batch(m1.G, m1.R, m.t.relationships, d),
                         !.t.total_relationships = @ + Len(m.t.relationships)], f)

\* after `await asyncio.sleep(0.05)`: the next chunk
BuildSleepReturn(m, f) == ChunkLoop([m EXCEPT !.t.idx = @ + 1], f)

\* the outcome sets a specification lets the external calls take
NoFaults == {AllOk}
\* every external call succeeds, or one of them fails in the block
Faults ==
    {AllOk}
    \cup {[AllOk EXCEPT ![k] = FALSE] :
             k \in {"init_ok", "pdf_ok", "docling_ok", "fetch_ok", "parse_ok",
                    "extract_ok", "graph_ok", "vec_ok", "rel_ok"}}
    \cup {[AllOk EXCEPT !.pagemap = v] : v \in {"empty", "raise"}}

build_task_begin(i, F) ==
    /\ tasks[i].pc = "queued" /\ tasks[i].kind = "build"
    /\ \E f \in F : Commit(i, BuildBegin(MachineOf(i), f))

build_task_documents(i, F) ==
    /\ tasks[i].pc = "await_docs" /\ tasks[i].kind = "build"
    /\ \E f \in F : Commit(i, BuildDocsReturn(MachineOf(i), f))

build_task_segments(i, F) ==
    /\ tasks[i].pc = "await_segs" /\ tasks[i].kind = "build"
    /\ \E f \in F : Commit(i, BuildSegsReturn(MachineOf(i), f))

build_task_vector(i, F) ==
    /\ tasks[i].pc = "await_vec" /\ tasks[i].kind = "build"
    /\ \E f \in F : Commit(i, BuildVecReturn(MachineOf(i), f))

build_task_sleep(i, F) ==
    /\ tasks[i].pc = "sleep" /\ tasks[i].kind = "build"
    /\ \E f \in F : Commit(i, BuildSleepReturn(MachineOf(i), f))

\* one block of the build task i
build_graphrag_task(i, F) ==
    \/ build_task_begin(i, F)
    \/ build_task_documents(i, F)
    \/ build_task_segments(i, F)
    \/ build_task_vector(i, F)
    \/ build_task_sleep(i, F)

\* ------------------------------------------------------------------------
\* update_page_mapping_task (routers/build.py)
\* ------------------------------------------------------------------------
\* lines 545-551
PagesFinish(m) ==
    IF Missing(m) THEN OuterExcept(m, "KeyError")
    ELSE [m EXCEPT !.bp[m.t.dataset_id].status = "completed",
                   !.bp[m.t.dataset_id].current_document = <<"">>,
                   !.bp[m.t.dataset_id].entities_extracted = m.t.total_updated,
                   !.t.pc = "done", !.t.final_status = "completed"]

\* lines 480-494: the document loop up to `await fetch_segments_from_db`
RECURSIVE PagesDocLoop(_)
PagesDocLoop(m) ==
    IF m.t.doc_idx >= Len(m.t.docs) THEN PagesFinish(m)
    ELSE IF Missing(m) THEN OuterExcept(m, "KeyError")
    ELSE LET d == m.t.dataset_id
             doc == CurDoc(m)
         IN  IF doc.s3_key = NoneVal \/ ~ IsPdf(doc)
             THEN PagesDocLoop([m EXCEPT !.bp[d].completed_documents = m.t.doc_idx + 1,
                                         !.t.doc_idx = @ + 1])
             ELSE [m EXCEPT !.bp[d].current_document = DocLabel(m, ""),
                            !.t.pc = "await_segs"]

\* line 543 (also 504) and the next document
PagesDocEnd(m) ==
    IF Missing(m) THEN OuterExcept(m, "KeyError")
    ELSE PagesDocLoop([m EXCEPT !.bp[m.t.dataset_id].completed_documents = m.t.doc_idx + 1,
                                !.t.doc_idx = @ + 1])

\* lines 527-535: SET e.source_page on the entities of one chunk
SetSourcePage(G, dataset_id, chunk_id, page_number) ==
    { IF x.dataset_id = dataset_id /\ x.source_chunk_id = chunk_id
      THEN [x EXCEPT !.source_page = page_number] ELSE x : x \in G }

UpdatedCount(G, dataset_id, chunk_id) ==
    Cardinality({x \in G : x.dataset_id = dataset_id /\ x.source_chunk_id = chunk_id})

\* lines 510-538: the segment loop (no await inside)
RECURSIVE PagesSegmentLoop(_)
PagesSegmentLoop(m) ==
    IF m.t.idx >= Len(m.t.chunks) THEN m
    ELSE LET d == m.t.dataset_id
             chunk_id == <<CurDoc(m).id, "seg", m.t.idx>>
             page_number == PageOfSegment(m.t.idx)
             updated == m.t.total_updated + UpdatedCount(m.G, d, chunk_id)
         IN  PagesSegmentLoop([m EXCEPT !.G = SetSourcePage(m.G, d, chunk_id, page_number),
                                        !.t.total_updated = updated,
                                        !.bp[d].completed_segments = @ + 1,
                                        !.bp[d].entities_extracted = updated,
                                        !.t.idx = @ + 1])

\* lines 443-470
PagesBegin(m, f) ==
    LET d == m.t.dataset_id
        m0 == [m EXCEPT !.bp = Put(m.bp, d, PageRecord)]
    IN  IF ~ f.init_ok THEN OuterExcept(m0, "store unreachable")
        ELSE IF ~ f.pdf_ok
        THEN [m0 EXCEPT !.bp[d].status = "error",
                        !.bp[d].error = "PDF extractor init failed",
                        !.t.pc = "done", !.t.final_status = "error"]
        ELSE [m0 EXCEPT !.bp[d].current_document = <<"Fetching documents...">>,
                        !.t.pc = "await_docs"]

\* lines 470-480
PagesDocsReturn(m, f) ==
    LET d == m.t.dataset_id
        completed_docs == DocumentsOf(d)
    IN  IF ~ f.fetch_ok THEN OuterExcept(m, "database unreachable")
        ELSE IF Missing(m) THEN OuterExcept(m, "KeyError")
        ELSE IF completed_docs = << >>
        THEN [m EXCEPT !.bp[d].status = "error",
                       !.bp[d].error = "No documents found",
                       !.t.pc = "done", !.t.final_status = "error"]
        ELSE PagesDocLoop([m EXCEPT !.bp[d].total_documents = Len(completed_docs),
                                    !.t.docs = completed_docs,
                                    !.t.doc_idx = 0])

\* lines 494-543
PagesSegsReturn(m, f) ==
    LET d == m.t.dataset_id
        segments == SegmentsOf(CurDoc(m).id)
    IN  IF ~ f.fetch_ok THEN PagesDocEnd(m)
        ELSE IF Missing(m) THEN PagesDocEnd(m)
        ELSE LET m1 == [m EXCEPT !.bp[d].total_segments = @ + Len(segments),
                                 !.bp[d].current_document = DocLabel(m, " (extracting pages...)"),
                                 !.t.chunks = segments, !.t.idx = 0]
             IN  IF f.pagemap = "raise" THEN PagesDocEnd(m1)
                 ELSE IF f.pagemap = "empty" THEN PagesDocEnd(m1)
                 ELSE IF ~ f.graph_ok THEN PagesDocEnd(m1)
                 ELSE PagesDocEnd(PagesSegmentLoop(
                         [m1 EXCEPT !.bp[d].current_document = DocLabel(m, " (updating entities...)")]))

pages_task_begin(i, F) ==
    /\ tasks[i].pc = "queued" /\ tasks[i].kind = "pages"
    /\ \E f \in F : Commit(i, PagesBegin(MachineOf(i), f))

pages_task_documents(i, F) ==
    /\ tasks[i].pc = "await_docs" /\ tasks[i].kind = "pages"
    /\ \E f \in F : Commit(i, PagesDocsReturn(MachineOf(i), f))

pages_task_segments(i, F) ==
    /\ tasks[i].pc = "await_segs" /\ tasks[i].kind = "pages"
    /\ \E f \in F : Commit(i, PagesSegsReturn(MachineOf(i), f))

\* one block of the page-mapping task i
update_page_mapping_task(i, F) ==
    \/ pages_task_begin(i, F)
    \/ pages_task_documents(i, F)
    \/ pages_task_segments(i, F)

\* ------------------------------------------------------------------------
\* The build endpoints (routers/build.py)
\* ------------------------------------------------------------------------
IsBuilding(bp, d) == d \in DOMAIN bp /\ bp[d].status = "building"

Live(t) == t.pc = "queued" \/ Running(t)

\* add_task can be modelled: a task number is left and the bound on live tasks allows it
CanAddTask ==
    /\ \E i \in TaskIds : tasks[i].pc = "unused"
    /\ Cardinality({i \in TaskIds : Live(tasks[i])}) < MaxLive

FreeTask == CHOOSE i \in TaskIds : tasks[i].pc = "unused" /\ \A j \in TaskIds : j < i => tasks[j].pc # "unused"

\* start_build without the check of lines 370-371
start_build_unguarded(d, resume, use_docling) ==
    /\ CanAddTask
    /\ tasks' = [tasks EXCEPT ![FreeTask] = NewTask("build", d, resume, use_docling)]
    /\ response' = [op |-> "start", dataset_id |-> d, status_code |-> 200]
    /\ UNCHANGED <<build_progress, graph_entities, graph_rels, vector_rows, llm, conv_vars, fn_vars,
                   request, nl_query>>

\* POST /build/start
start_build(d, resume, use_docling) ==
    IF IsBuilding(build_progress, d)
    THEN /\ response' = [op |-> "start", dataset_id |-> d, status_code |-> 409]
         /\ UNCHANGED <<build_progress, tasks, graph_entities, graph_rels, vector_rows, llm, conv_vars, fn_vars,
                        request, nl_query>>
    ELSE /\ CanAddTask
         /\ tasks' = [tasks EXCEPT ![FreeTask] = NewTask("build", d, resume, use_docling)]
         /\ response' = [op |-> "start", dataset_id |-> d, status_code |-> 200]
         /\ UNCHANGED <<build_progress, graph_entities, graph_rels, vector_rows, llm, conv_vars, fn_vars,
                        request, nl_query>>

\* POST /build/update-pages
update_page_mapping(d) ==
    IF IsBuilding(build_progress, d)
    THEN /\ response' = [op |-> "update-pages", dataset_id |-> d, status_code |-> 409]
         /\ UNCHANGED <<build_progress, tasks, graph_entities, graph_rels, vector_rows, llm, conv_vars, fn_vars,
                        request, nl_query>>
    ELSE /\ CanAddTask
         /\ tasks' = [tasks EXCEPT ![FreeTask] = NewTask("pages", d, FALSE, FALSE)]
         /\ response' = [op |-> "update-pages", dataset_id |-> d, status_code |-> 200]
         /\ UNCHANGED <<build_progress, graph_entities, graph_rels, vector_rows, llm, conv_vars, fn_vars,
                        request, nl_query>>

\* DELETE /build/progress/{dataset_id}
clear_progress(d) ==
    /\ build_progress' = IF d \in DOMAIN build_progress THEN Drop(build_progress, d)
                         ELSE build_progress
    /\ response' = [op |-> "clear", dataset_id |-> d, status_code |-> 200]
    /\ UNCHANGED <<tasks, graph_entities, graph_rels, vector_rows, llm, conv_vars, fn_vars, request, nl_query>>

\* GET /build/progress/{dataset_id}: the ProgressResponse
get_progress(bp, d) ==
    IF d \notin DOMAIN bp
    THEN [dataset_id |-> d, status |-> "idle", total_documents |-> 0,
          completed_documents |-> 0, total_segments |-> 0, completed_segments |-> 0,
          skipped_segments |-> 0, current_document |-> <<"">>, entities_extracted |-> 0,
          relationships_extracted |-> 0, error |-> NoneVal, resume_mode |-> FALSE,
          docling_mode |-> FALSE]
    ELSE [dataset_id |-> d, status |-> bp[d].status,
          total_documents |-> bp[d].total_documents,
          completed_documents |-> bp[d].completed_documents,
          total_segments |-> bp[d].total_segments,
          completed_segments |-> bp[d].completed_segments,
          skipped_segments |-> bp[d].skipped_segments,
          current_document |-> bp[d].current_document,
          entities_extracted |-> bp[d].entities_extracted,
          relationships_extracted |-> bp[d].relationships_extracted,
          error |-> bp[d].error, resume_mode |-> bp[d].resume_mode,
          docling_mode |-> IF "docling_mode" \in DOMAIN bp[d] THEN bp[d].docling_mode
                           ELSE FALSE]

NoResponse == [op |-> "none", dataset_id |-> NoneVal, status_code |-> 0]

\* no ingest / delete / import request is being handled; `handled` counts
\* the requests a behaviour has taken so far
IdleRequest(handled) == [pc |-> "idle", handled |-> handled]

\* no nl-query request is being handled
NoQuery == [pc |-> "idle"]

\* ------------------------------------------------------------------------
\* The ingest endpoints (routers/ingest.py) and export / import
\* (routers/backup.py).  One such request is handled at a time here; it
\* yields to the event loop at `await vector_store.insert_entities_batch`.
\* ------------------------------------------------------------------------
\* the outcomes of the store calls of one block of a request
RequestOk == [gdel_ok |-> TRUE, vdel_ok |-> TRUE, graph_ok |-> TRUE, vec_ok |-> TRUE,
              rel_ok |-> TRUE]

RequestFaults ==
    {RequestOk}
    \cup {[RequestOk EXCEPT ![k] = FALSE] :
             k \in {"gdel_ok", "vdel_ok", "graph_ok", "vec_ok", "rel_ok"}}

\* an Entity as a client sends it
ClientEntity(id, name) ==
    [id |-> id, name |-> name, source_document_id |-> NoneVal,
     source_chunk_id |-> NoneId, source_page |-> NoPage]

EntityLists ==
    { << >>, << ClientEntity(NoneId, Namea) >>, << ClientEntity(<<"x">>, Nameb) >> }

\* RelationshipType (models/relationship.py)
RelationshipTypes ==
    {"RELATED_TO", "MENTIONS", "WORKS_FOR", "LOCATED_IN", "PART_OF", "CREATED_BY",
     "BELONGS_TO", "DEPENDS_ON", "SIMILAR_TO", "CAUSED_BY", "LEADS_TO", "CONTAINS",
     "USES", "IS_A", "HAS", "ABOUT", "OTHER"}

Reply(op, dataset_id, status_code) ==
    [op |-> op, dataset_id |-> dataset_id, status_code |-> status_code]

CanTakeRequest == request.pc = "idle" /\ request.handled < MaxRequests

\* POST /ingest/entities up to the await of the vector insert
ingest_entities(d, entities, include_vectors, F) ==
    /\ CanTakeRequest
    /\ \E f \in F :
         IF ~ f.graph_ok
         THEN /\ response' = Reply("ingest_entities", d, 500)
              /\ request' = IdleRequest(request.handled + 1)
              /\ UNCHANGED <<graph_entities, vector_rows>>
         ELSE /\ graph_entities' = create_entities_batch(graph_entities, entities, d)
              /\ IF include_vectors /\ entities # << >>
                 THEN /\ request' = [pc |-> "await_vec", op |-> "ingest_entities",
                                     dataset_id |-> d, entities |-> entities,
                                     relationships |-> << >>,
                                     handled |-> request.handled + 1]
                      /\ UNCHANGED response
                 ELSE /\ response' = Reply("ingest_entities", d, 200)
                      /\ request' = IdleRequest(request.handled + 1)
              /\ UNCHANGED vector_rows
    /\ UNCHANGED <<build_progress, tasks, graph_rels, llm, conv_vars, fn_vars, nl_query>>

\* POST /ingest/entities: the vector insert returns or raises
ingest_entities_vector(F) ==
    /\ request.pc = "await_vec" /\ request.op = "ingest_entities"
    /\ \E f \in F :
         IF f.vec_ok
         THEN /\ vector_rows' = insert_entities_batch(vector_rows, request.entities,
                                                      request.dataset_id)
              /\ response' = Reply("ingest_entities", request.dataset_id, 200)
         ELSE /\ response' = Reply("ingest_entities", request.dataset_id, 500)
              /\ UNCHANGED vector_rows
    /\ request' = IdleRequest(request.handled)
    /\ UNCHANGED <<build_progress, tasks, graph_entities, graph_rels, llm, conv_vars, fn_vars, nl_query>>

\* DELETE /ingest/dataset: the graph store first, then the vector store
delete_dataset(d, F) ==
    /\ CanTakeRequest
    /\ \E f \in F :
         IF ~ f.gdel_ok
         THEN /\ response' = Reply("delete_dataset", d, 500)
              /\ UNCHANGED <<graph_entities, graph_rels, vector_rows>>
         ELSE /\ graph_entities' = delete_dataset_nodes(graph_entities, d)
              /\ graph_rels' = delete_dataset_edges(graph_entities, graph_rels, d)
              /\ IF ~ f.vdel_ok
                 THEN /\ response' = Reply("delete_dataset", d, 500)
                      /\ UNCHANGED vector_rows
                 ELSE /\ vector_rows' = delete_by_dataset(vector_rows, d)
                      /\ response' = Reply("delete_dataset", d, 200)
    /\ request' = IdleRequest(request.handled + 1)
    /\ UNCHANGED <<build_progress, tasks, llm, conv_vars, fn_vars, nl_query>>

RECURSIVE SetToSeq(_)
SetToSeq(S) ==
    IF S = {} THEN << >>
    ELSE LET x == CHOOSE y \in S : TRUE IN <<x>> \o SetToSeq(S \ {x})

InDataset(G, id, d) == \E x \in G : x.id = id /\ x.dataset_id = d

\* GET /backup/export/{dataset_id}: the JSON document
export_dataset(G, R, d) ==
    LET nodes == {x \in G : x.dataset_id = d}
        edges == {r \in R : InDataset(G, r.source, d) /\ InDataset(G, r.target, d)}
    IN  [metadata |-> [dataset_id |-> d, entity_count |-> Cardinality(nodes),
                       relationship_count |-> Cardinality(edges)],
         entities |-> SetToSeq(nodes),
         relationships |->
             SetToSeq({ [source_id |-> r.source, target_id |-> r.target,
                         type |-> "RELATES_TO",
                         properties |-> [id |-> r.id, type |-> r.type,
                                         source_document_id |-> r.source_document_id,
                                         dataset_id |-> r.dataset_id]] : r \in edges })]

\* an uploaded file: not JSON, or a JSON document
BadJson == [json |-> FALSE]
JsonFile(data) == [json |-> TRUE, data |-> data]

\* a JSON document without "metadata"
NoMetadata == [entities |-> << >>]

\* a hand-written document without a dataset id
HandWritten ==
    [metadata |-> [dataset_id |-> NoneVal],
     entities |-> << [id |-> NoneId, name |-> Namea, dataset_id |-> NoneVal,
                      source_document_id |-> NoneVal, source_chunk_id |-> NoneId,
                      source_page |-> NoPage] >>,
     relationships |-> << [source_id |-> Namea, target_id |-> Namea, type |-> "RELATED_TO",
                           properties |-> [source_document_id |-> NoneVal]] >>]

\* lines 166-181: the Entity objects of the document
ImportEntities(data) ==
    [i \in 1..Len(data.entities) |->
        [id |-> data.entities[i].id, name |-> data.entities[i].name,
         source_document_id |-> data.entities[i].source_document_id,
         source_chunk_id |-> data.entities[i].source_chunk_id,
         source_page |-> NoPage]]

\* lines 188-196: the Relationship objects of the document
ImportRelationships(rel_data) ==
    [i \in 1..Len(rel_data) |->
        [id |-> NoneId,
         source_entity_id |-> rel_data[i].source_id,
         target_entity_id |-> rel_data[i].target_id,
         source_entity_name |-> NoneId, target_entity_name |-> NoneId,
         type |-> rel_data[i].type,
         source_document_id |-> rel_data[i].properties.source_document_id]]

\* lines 186-207: Relationship(...) validates the type; then the batch
ImportTail(G, R, rel_data, dataset_id, f) ==
    IF rel_data = << >> THEN [R |-> R, status_code |-> 200]
    ELSE IF \E i \in 1..Len(rel_data) : rel_data[i].type \notin RelationshipTypes
    THEN [R |-> R, status_code |-> 500]
    ELSE IF ~ f.rel_ok THEN [R |-> R, status_code |-> 500]
    ELSE [R |-> create_relationships_batch(G, R, ImportRelationships(rel_data), dataset_id),
          status_code |-> 200]

\* lines 142-184: up to the await of the vector insert.  The HTTPException
\* of lines 149 and 155 is raised inside the try and caught by line 211.
ImportBegin(G, R, V, file, target_dataset_id, merge, f) ==
    LET Stop(G1, R1, V1, code) ==
            [G |-> G1, R |-> R1, V |-> V1, status_code |-> code, pending |-> FALSE]
    IN  IF ~ file.json THEN Stop(G, R, V, 400)
        ELSE LET data == file.data
             IN  IF "metadata" \notin DOMAIN data \/ "entities" \notin DOMAIN data
                 THEN Stop(G, R, V, 500)
                 ELSE LET dataset_id == IF target_dataset_id # NoneVal THEN target_dataset_id
                                        ELSE data.metadata.dataset_id
                          rel_data == IF "relationships" \in DOMAIN data
                                      THEN data.relationships ELSE << >>
                      IN  IF dataset_id = NoneVal THEN Stop(G, R, V, 500)
                          ELSE IF ~ merge /\ ~ f.gdel_ok THEN Stop(G, R, V, 500)
                          ELSE LET G1 == IF merge THEN G ELSE delete_dataset_nodes(G, dataset_id)
                                   R1 == IF merge THEN R ELSE delete_dataset_edges(G, R, dataset_id)
                               IN  IF ~ merge /\ ~ f.vdel_ok THEN Stop(G1, R1, V, 500)
                                   ELSE LET V1 == IF merge THEN V
                                                  ELSE delete_by_dataset(V, dataset_id)
                                            entities == ImportEntities(data)
                                        IN  IF entities = << >>
                                            THEN LET t == ImportTail(G1, R1, rel_data, dataset_id, f)
                                                 IN  Stop(G1, t.R, V1, t.status_code)
                                            ELSE IF ~ f.graph_ok THEN Stop(G1, R1, V1, 500)
                                            ELSE [G |-> create_entities_batch(G1, entities, dataset_id),
                                                  R |-> R1, V |-> V1, status_code |-> 0,
                                                  pending |-> TRUE, dataset_id |-> dataset_id,
                                                  entities |-> entities,
                                                  relationships |-> rel_data]

\* the files a client uploads: an export of the present graph among them
ImportFiles ==
    {BadJson, JsonFile(NoMetadata), JsonFile(HandWritten)}
    \cup {JsonFile(export_dataset(graph_entities, graph_rels, d)) : d \in Datasets}

\* POST /backup/import up to the await of the vector insert
import_dataset(file, target_dataset_id, merge, F) ==
    /\ CanTakeRequest
    /\ \E f \in F :
         LET o == ImportBegin(graph_entities, graph_rels, vector_rows, file,
                              target_dataset_id, merge, f)
         IN  /\ graph_entities' = o.G
             /\ graph_rels' = o.R
             /\ vector_rows' = o.V
             /\ IF o.pending
                THEN /\ request' = [pc |-> "await_vec", op |-> "import",
                                    dataset_id |-> o.dataset_id, entities |-> o.entities,
                                    relationships |-> o.relationships,
                                    handled |-> request.handled + 1]
                     /\ UNCHANGED response
                ELSE /\ request' = IdleRequest(request.handled + 1)
                     /\ response' = Reply("import", target_dataset_id, o.status_code)
    /\ UNCHANGED <<build_progress, tasks, llm, conv_vars, fn_vars, nl_query>>

\* POST /backup/import: the vector insert returns or raises; the relationships
import_dataset_vector(F) ==
    /\ request.pc = "await_vec" /\ request.op = "import"
    /\ \E f \in F :
         IF ~ f.vec_ok
         THEN /\ response' = Reply("import", request.dataset_id, 500)
              /\ UNCHANGED <<vector_rows, graph_rels>>
         ELSE LET t == ImportTail(graph_entities, graph_rels, request.relationships,
                                  request.dataset_id, f)
              IN  /\ vector_rows' = insert_entities_batch(vector_rows, request.entities,
                                                          request.dataset_id)
                  /\ graph_rels' = t.R
                  /\ response' = Reply("import", request.dataset_id, t.status_code)
    /\ request' = IdleRequest(request.handled)
    /\ UNCHANGED <<build_progress, tasks, graph_entities, llm, conv_vars, fn_vars, nl_query>>

\* ------------------------------------------------------------------------
\* NL-to-Cypher (services/nl_to_cypher.py) and POST /search/nl-query
\* (routers/search.py).  Query strings are sequences of characters.
\* ------------------------------------------------------------------------
Lowercase == << "a", "b", "c", "d", "e", "f", "g", "h", "i", "j", "k", "l", "m",
                "n", "o", "p", "q", "r", "s", "t", "u", "v", "w", "x", "y", "z" >>
Uppercase == << "A", "B", "C", "D", "E", "F", "G", "H", "I", "J", "K", "L", "M",
                "N", "O", "P", "Q", "R", "S", "T", "U", "V", "W", "X", "Y", "Z" >>

\* str.upper(), one character
UpperChar(c) ==
    IF \E i \in DOMAIN Lowercase : Lowercase[i] = c
    THEN Uppercase[CHOOSE i \in DOMAIN Lowercase : Lowercase[i] = c]
    ELSE c

\* str.lower(), one character
DownChar(c) ==
    IF \E i \in DOMAIN Uppercase : Uppercase[i] = c
    THEN Lowercase[CHOOSE i \in DOMAIN Uppercase : Uppercase[i] = c]
    ELSE c

Upper(s) == [i \in 1..Len(s) |-> UpperChar(s[i])]

Whitespace == {" ", "\n", "\t"}

RECURSIVE LStrip(_)
LStrip(s) == IF s # << >> /\ Head(s) \in Whitespace THEN LStrip(Tail(s)) ELSE s

RECURSIVE RStrip(_)
RStrip(s) ==
    IF s # << >> /\ s[Len(s)] \in Whitespace THEN RStrip(SubSeq(s, 1, Len(s) - 1)) ELSE s

\* str.strip()
Strip(s) == RStrip(LStrip(s))

StartsWith(s, prefix) == Len(s) >= Len(prefix) /\ SubSeq(s, 1, Len(prefix)) = prefix
EndsWith(s, suffix) ==
    Len(s) >= Len(suffix) /\ SubSeq(s, Len(s) - Len(suffix) + 1, Len(s)) = suffix

\* the backquote character (written by name: the character cannot stand in a
\* string of this language)
Backquote == "backquote"
Fence == << Backquote, Backquote, Backquote >>
FenceCypher == Fence \o << "c", "y", "p", "h", "e", "r" >>

dangerous_keywords ==
    << << "D", "E", "L", "E", "T", "E" >>, << "R", "E", "M", "O", "V", "E" >>,
       << "D", "R", "O", "P" >>, << "C", "R", "E", "A", "T", "E" >>,
       << "S", "E", "T" >>, << "M", "E", "R", "G", "E" >> >>

\* the query contains one of the six verbs, in any letter case
HasVerb(s) == \E k \in DOMAIN dangerous_keywords : Contains(Upper(s), dangerous_keywords[k])

\* lines 73-80: the markdown fences are removed
StripFences(cypher) ==
    LET s1 == Strip(cypher)
        s2 == IF StartsWith(s1, FenceCypher) THEN SubSeq(s1, Len(FenceCypher) + 1, Len(s1))
              ELSE s1
        s3 == IF StartsWith(s2, Fence) THEN SubSeq(s2, Len(Fence) + 1, Len(s2)) ELSE s2
        s4 == IF EndsWith(s3, Fence) THEN SubSeq(s3, 1, Len(s3) - Len(Fence)) ELSE s3
    IN  Strip(s4)

\* _clean_cypher without the check of lines 82-88
clean_cypher_unchecked(cypher) == StripFences(cypher)

\* NLToCypher._clean_cypher; None is the empty sequence (`if not cypher`
\* treats the two alike)
clean_cypher(cypher) ==
    LET cleaned == StripFences(cypher)
    IN  IF HasVerb(cleaned) THEN NoneId ELSE cleaned

\* NLToCypher.convert: the LLM raised, or answered `content`
convert(llm_out) ==
    IF llm_out.raised THEN NoneId ELSE clean_cypher(Strip(llm_out.content))

\* what the database does with a query text: a text that does not begin
\* with a clause is a syntax error; rows come back from a RETURN; a text with
\* a writing clause may write
ClauseStarts ==
    { << "M", "A", "T", "C", "H" >>, << "O", "P", "T", "I", "O", "N", "A", "L" >>,
      << "U", "N", "W", "I", "N", "D" >>, << "W", "I", "T", "H" >>,
      << "R", "E", "T", "U", "R", "N" >>, << "C", "A", "L", "L" >>,
      << "C", "R", "E", "A", "T", "E" >>, << "M", "E", "R", "G", "E" >>,
      << "D", "R", "O", "P" >> }

Parses(query) == \E k \in ClauseStarts : StartsWith(Upper(query), k)

CypherOutcomes(query) ==
    IF ~ Parses(query) THEN {"raise"}
    ELSE {"raise", "empty"}
         \cup (IF Contains(Upper(query), << "R", "E", "T", "U", "R", "N" >>)
               THEN {"scalar", "rows"} ELSE {})
         \cup (IF HasVerb(query) THEN {"write"} ELSE {})

\* GraphStore.execute_cypher: the query goes to the database as it is
execute_cypher(G, R, query, outcome) ==
    [G |-> IF outcome = "write" THEN {} ELSE G,
     R |-> IF outcome = "write" THEN {} ELSE R,
     raised |-> outcome = "raise",
     results |-> IF outcome = "rows" THEN SetToSeq({[e |-> x] : x \in G})
                 ELSE IF outcome = "scalar" THEN << [count |-> Cardinality(G)] >>
                 ELSE << >>]

Adjacent(R, ids) ==
    {r.target : r \in {e \in R : e.source \in ids}}
    \cup {r.source : r \in {e \in R : e.target \in ids}}

\* GraphStore.get_entity_neighbors (max_depth = 2): the ids of the nodes
get_entity_neighbors(G, R, entity_id) ==
    LET known == {x.id : x \in G}
        near == Adjacent(R, {entity_id}) \cap known
    IN  IF entity_id \notin known \/ near = {} THEN {}
        ELSE {entity_id} \cup near \cup (Adjacent(R, near) \cap known)

\* GraphStore.get_graph_by_dataset: the ids of the nodes
get_graph_by_dataset(G, dataset_id) == {x.id : x \in {y \in G : y.dataset_id = dataset_id}}

\* the requests: whether the question names a product or a common topic,
\* the dataset, the narrative flag, and query.document_id ("absent": the
\* request model declares no such field and the access raises)
NLRequests ==
    [product : BOOLEAN, topic : BOOLEAN, dataset_id : Datasets \cup {NoneVal},
     include_narrative : BOOLEAN, document_id : {"absent", NoneVal, "docA"}]

\* every spelling of a word in upper and lower case letters
CaseVariants(w) ==
    { [i \in 1..Len(w) |-> IF b[i] THEN w[i] ELSE DownChar(w[i])] :
        b \in [1..Len(w) -> BOOLEAN] }

MatchN == << "M", "A", "T", "C", "H", " ", "(", "n", ")" >>
ReturnN == << " ", "R", "E", "T", "U", "R", "N", " ", "n" >>

\* the six verbs in every letter case
VerbSpellings ==
    UNION {CaseVariants(dangerous_keywords[k]) : k \in DOMAIN dangerous_keywords}

\* what the LLM may answer: reading queries, queries with each verb in every
\* letter case, bare and fenced, and texts the fences of which hide or
\* complete a verb
LLMContents ==
    { MatchN \o ReturnN,
      FenceCypher \o << "\n" >> \o MatchN \o ReturnN \o << "\n" >> \o Fence,
      MatchN \o << " ", "W", "H", "E", "R", "E", " ", "n", ".", "d", "a", "t", "a",
                    "s", "e", "t", "_", "i", "d" >> \o ReturnN,
      FenceCypher \o << "E", "M", "O", "V", "E", " ", "n" >>,
      FenceCypher \o << "e", "m", "o", "v", "e", " ", "n" >>,
      << >>, Fence, << " ", "\n" >> }
    \cup { MatchN \o << " " >> \o v \o << " ", "n" >> : v \in VerbSpellings }
    \cup UNION { { << " " >> \o FenceCypher \o << "\n" >> \o MatchN \o << " " >> \o v
                       \o << " ", "n", "\n" >> \o Fence \o << "\n" >>,
                   Fence \o v \o << " ", "n" >> \o Fence } :
                 v \in {dangerous_keywords[k] : k \in DOMAIN dangerous_keywords}
                       \cup {[i \in 1..Len(dangerous_keywords[k]) |->
                                DownChar(dangerous_keywords[k][i])] :
                             k \in DOMAIN dangerous_keywords} }

LLMOutcomes ==
    {[raised |-> TRUE, content |-> NoneId]}
    \cup {[raised |-> FALSE, content |-> c] : c \in LLMContents}

\* the request in flight: `raw` is the LLM's answer, `cypher` the cleaned
\* query, `executed` the texts execute_cypher was called with, `graph` the
\* ids of the nodes of the graph data; history, not program state: `tried`
\* lists the graph sources the handler has called, `source` is the one
\* whose graph it uses
NewQuery(req) ==
    [pc |-> "await_llm", dataset_id |-> req.dataset_id,
     include_narrative |-> req.include_narrative,
     llm_called |-> FALSE, raw |-> NoneId, cypher |-> NoneId, executed |-> {},
     success |-> FALSE, used_fallback |-> FALSE, graph |-> {},
     tried |-> << >>, source |-> NoneVal]

\* lines 326-346: the narrative is awaited when asked for and there is graph
\* data; otherwise the response is built
NLRespond(q, graph) ==
    IF q.include_narrative /\ graph # {}
    THEN [q EXCEPT !.pc = "await_narrative", !.graph = graph]
    ELSE NoQuery

\* POST /search/nl-query, lines 184-222: the document context, the
\* clarification response, and the call of execute_nl_query
natural_language_query(req) ==
    /\ nl_query.pc = "idle"
    /\ \E doc_found \in BOOLEAN, docs_available \in BOOLEAN :
         LET doc_context ==
                IF req.document_id # NoneVal THEN req.document_id
                ELSE IF req.product /\ doc_found THEN "docA" ELSE NoneVal
             needs_clarification ==
                req.document_id = NoneVal /\ doc_context = NoneVal /\ req.topic /\ docs_available
         IN  IF req.document_id = "absent"
             THEN /\ nl_query' = NoQuery
                  /\ response' = Reply("nl-query", req.dataset_id, 500)
             ELSE IF needs_clarification
             THEN /\ nl_query' = NoQuery
                  /\ response' = Reply("nl-query", req.dataset_id, 200)
             ELSE /\ nl_query' = NewQuery(req)
                  /\ response' = response
    /\ UNCHANGED <<build_progress, tasks, graph_entities, graph_rels, vector_rows, llm, conv_vars, fn_vars,
                   request>>

\* execute_nl_query, lines 128-139: the LLM answered; without a query the
\* result is success=False and the handler goes to the hybrid search
nl_query_llm ==
    /\ nl_query.pc = "await_llm"
    /\ \E llm_out \in LLMOutcomes :
         LET cypher == convert(llm_out)
             called == [nl_query EXCEPT !.llm_called = TRUE,
                                        !.raw = IF llm_out.raised THEN NoneId
                                                ELSE llm_out.content]
         IN  nl_query' = IF cypher = << >>
                         THEN [called EXCEPT !.pc = "await_hybrid", !.used_fallback = TRUE]
                         ELSE [called EXCEPT !.pc = "await_cypher", !.cypher = cypher]
    /\ UNCHANGED <<build_progress, tasks, graph_entities, graph_rels, vector_rows, llm, conv_vars, fn_vars,
                   response, request>>

\* execute_nl_query, lines 141-155, and the handler's lines 224-255: the
\* database answered the query; graph data from the rows
nl_query_cypher ==
    /\ nl_query.pc = "await_cypher"
    /\ \E outcome \in CypherOutcomes(nl_query.cypher), graph_ok \in BOOLEAN :
         LET x == execute_cypher(graph_entities, graph_rels, nl_query.cypher, outcome)
             rows == x.results
             called == IF x.raised \/ rows = << >> THEN NoneVal
                       ELSE IF "e" \in DOMAIN rows[1] THEN "neighborhood"
                       ELSE IF nl_query.dataset_id # NoneVal THEN "sample"
                       ELSE NoneVal
             graph == IF x.raised \/ rows = << >> THEN {}
                      ELSE IF "e" \in DOMAIN rows[1]
                      THEN get_entity_neighbors(x.G, x.R, rows[1].e.id)
                      ELSE IF nl_query.dataset_id # NoneVal
                      THEN get_graph_by_dataset(x.G, nl_query.dataset_id)
                      ELSE {}
             q == [nl_query EXCEPT !.executed = @ \cup {nl_query.cypher},
                                   !.success = ~ x.raised,
                                   !.tried = IF called = NoneVal THEN @ ELSE Append(@, called),
                                   !.source = IF graph = {} THEN NoneVal ELSE called]
         IN  /\ graph_entities' = x.G
             /\ graph_rels' = x.R
             /\ IF ~ x.raised /\ rows # << >> /\ ~ graph_ok
                THEN /\ nl_query' = NoQuery
                     /\ response' = Reply("nl-query", q.dataset_id, 500)
                ELSE IF graph = {}
                THEN /\ nl_query' = [q EXCEPT !.pc = "await_hybrid", !.used_fallback = TRUE]
                     /\ response' = response
                ELSE /\ nl_query' = NLRespond(q, graph)
                     /\ response' = IF NLRespond(q, graph) = NoQuery
                                    THEN Reply("nl-query", q.dataset_id, 200)
                                    ELSE response
    /\ UNCHANGED <<build_progress, tasks, vector_rows, llm, conv_vars, fn_vars, request>>

\* the entity ids a hybrid search may rank first
HybridHits(G, V, dataset_id) ==
    {x.id : x \in {y \in G : dataset_id = NoneVal \/ y.dataset_id = dataset_id}}
    \cup {row.id : row \in {y \in BagToSet(V) : dataset_id = NoneVal \/ y.dataset_id = dataset_id}}

\* lines 255-324: the hybrid search returned `hit` (or nothing, or raised);
\* the text search of line 293 passes source_document_id, which
\* search_entities does not take, and its TypeError is caught at line 311;
\* the graph of the dataset is the last resort
nl_query_hybrid ==
    /\ nl_query.pc = "await_hybrid"
    /\ \E raised \in BOOLEAN, graph_ok \in BOOLEAN,
          hit \in {NoneId} \cup HybridHits(graph_entities, vector_rows, nl_query.dataset_id) :
         LET g1 == IF raised \/ hit = NoneId \/ ~ graph_ok THEN {}
                   ELSE get_entity_neighbors(graph_entities, graph_rels, hit)
             g2 == IF g1 = {} /\ nl_query.dataset_id # NoneVal /\ graph_ok
                   THEN get_graph_by_dataset(graph_entities, nl_query.dataset_id)
                   ELSE g1
             later == IF g1 # {} THEN << >>
                      ELSE IF nl_query.dataset_id # NoneVal THEN << "text", "sample" >>
                      ELSE << "text" >>
             q == [nl_query EXCEPT !.tried = @ \o << "hybrid" >> \o later,
                                   !.source = IF g1 # {} THEN "hybrid"
                                              ELSE IF g2 # {} THEN "sample" ELSE NoneVal]
         IN  /\ nl_query' = NLRespond(q, g2)
             /\ response' = IF NLRespond(q, g2) = NoQuery
                            THEN Reply("nl-query", nl_query.dataset_id, 200)
                            ELSE response
    /\ UNCHANGED <<build_progress, tasks, graph_entities, graph_rels, vector_rows, llm, conv_vars, fn_vars,
                   request>>

\* lines 326-346: answer_question returns or raises
nl_query_narrative ==
    /\ nl_query.pc = "await_narrative"
    /\ \E ok \in BOOLEAN :
         /\ nl_query' = NoQuery
         /\ response' = Reply("nl-query", nl_query.dataset_id, IF ok THEN 200 ELSE 500)
    /\ UNCHANGED <<build_progress, tasks, graph_entities, graph_rels, vector_rows, llm, conv_vars, fn_vars,
                   request>>

\* ------------------------------------------------------------------------
\* Session store (services/session_store.py): ConversationState documents in
\* Redis, one key per session, each with a remaining lifetime.  One unit of
\* time is 3600 seconds.
\* ------------------------------------------------------------------------
TTL == 24
ExtendBy == 1
MaxIdle == 26
MaxExtend == 2
MaxHistory == 2
MaxAdded == 3         \* messages added to a session beyond the history limit

SessionIds == {"s1"}

\* the condition names and the values a client selects or the engine stores
ValueNames == {"product_type", "claim_reason", "document_id", "__original_query__"}
NoValues == << >>

\* collected_values[key] = value
SetValue(values, key, value) ==
    [k \in DOMAIN values \cup {key} |-> IF k = key THEN value ELSE values[k]]

\* create_session: the ConversationState of a new session
NewState(session_id) ==
    [session_id |-> session_id, current_intent |-> NoneVal, current_node_id |-> NoneVal,
     collected_values |-> NoValues, conversation_history |-> << >>,
     document_context |-> NoneVal]

\* redis.setex(key, self.ttl, data); `idle` is the time since the last setex
\* of the key (Redis keeps no such number: it is kept here to state how long
\* a session has gone unwritten)
StoredKey(state) == [state |-> state, ttl |-> TTL, idle |-> 0]

\* _save_state: the Redis error is caught and nothing is written
save_state(S, state, ok) ==
    IF ok
    THEN [k \in DOMAIN S \cup {state.session_id} |->
            IF k = state.session_id THEN StoredKey(state) ELSE S[k]]
    ELSE S

\* get_session: None for a key that is not there
HasSession(S, session_id) == session_id \in DOMAIN S
get_session(S, session_id) == S[session_id].state

update_session(S, state, ok) == save_state(S, state, ok)

\* set_intent, set_current_node, set_document_context, set_value, reset_session
set_intent(S, session_id, intent, ok) ==
    IF ~ HasSession(S, session_id) THEN S
    ELSE update_session(S, [get_session(S, session_id) EXCEPT !.current_intent = intent], ok)

set_current_node(S, session_id, node_id, ok) ==
    IF ~ HasSession(S, session_id) THEN S
    ELSE update_session(S, [get_session(S, session_id) EXCEPT !.current_node_id = node_id], ok)

set_document_context(S, session_id, document_id, ok) ==
    IF ~ HasSession(S, session_id) THEN S
    ELSE update_session(S, [get_session(S, session_id) EXCEPT !.document_context = document_id],
                        ok)

set_value(S, session_id, key, value, ok) ==
    IF ~ HasSession(S, session_id) THEN S
    ELSE update_session(S, [get_session(S, session_id) EXCEPT
                               !.collected_values = SetValue(@, key, value)], ok)

\* reset_session that starts the session over
reset_session_all(S, session_id, ok) ==
    IF ~ HasSession(S, session_id) THEN S
    ELSE update_session(S, NewState(session_id), ok)

reset_session(S, session_id, ok) ==
    IF ~ HasSession(S, session_id) THEN S
    ELSE update_session(S, [get_session(S, session_id) EXCEPT
                               !.current_intent = NoneVal, !.current_node_id = NoneVal,
                               !.collected_values = NoValues], ok)

\* add_message: the history keeps its last 50 messages
HistoryLimit == 50

\* add_message that keeps every message
add_message_untrimmed(S, session_id, message, ok) ==
    IF ~ HasSession(S, session_id) THEN S
    ELSE LET state == get_session(S, session_id)
         IN  update_session(S, [state EXCEPT !.conversation_history = Append(@, message)], ok)

\* a message is its role where no more of it matters, or its role and the
\* number of the message among those the session was given
add_message(S, session_id, message, ok) ==
    IF ~ HasSession(S, session_id) THEN S
    ELSE LET state == get_session(S, session_id)
             history == Append(state.conversation_history, message)
             kept == IF Len(history) > HistoryLimit
                     THEN SubSeq(history, Len(history) - HistoryLimit + 1, Len(history))
                     ELSE history
         IN  update_session(S, [state EXCEPT !.conversation_history = kept], ok)

\* delete_session
delete_session(S, session_id) == [k \in DOMAIN S \ {session_id} |-> S[k]]

\* extend_session: redis.expire(key, current_ttl + additional_seconds)
extend_session(S, session_id, additional) ==
    IF ~ HasSession(S, session_id) THEN S
    ELSE [S EXCEPT ![session_id].ttl = @ + additional]

\* one unit of time passes in Redis: the keys whose lifetime ends are gone
RedisTick(S) ==
    [k \in {x \in DOMAIN S : S[x].ttl > 1} |->
        [S[k] EXCEPT !.ttl = @ - 1, !.idle = @ + 1]]

\* the session store operations, called by any caller on the session s1
session_write(session_id) ==
    /\ \E ok \in BOOLEAN :
        \/ /\ ~ HasSession(sessions, session_id)
           /\ sessions' = save_state(sessions, NewState(session_id), ok)
        \/ \E intent \in {NoneVal, "claim"} :
              sessions' = set_intent(sessions, session_id, intent, ok)
        \/ \E node_id \in {"cond_product", "c1"} :
              sessions' = set_current_node(sessions, session_id, node_id, ok)
        \/ sessions' = set_document_context(sessions, session_id, "docA", ok)
        \/ sessions' = set_value(sessions, session_id, "product_type", "optA", ok)
        \/ sessions' = reset_session(sessions, session_id, ok)
        \/ /\ HasSession(sessions, session_id)
           /\ Len(get_session(sessions, session_id).conversation_history) < MaxHistory
           /\ \E role \in {"user", "assistant"} :
                 sessions' = add_message(sessions, session_id, role, ok)
    /\ response' = [op |-> "session-write", session_id |-> session_id]
    /\ UNCHANGED <<fn_vars, build_progress, tasks, graph_entities, graph_rels, vector_rows, llm,
                   request, nl_query, turns, flow>>

session_delete(session_id) ==
    /\ sessions' = delete_session(sessions, session_id)
    /\ response' = [op |-> "session-delete", session_id |-> session_id]
    /\ UNCHANGED <<fn_vars, build_progress, tasks, graph_entities, graph_rels, vector_rows, llm,
                   request, nl_query, turns, flow>>

session_extend(session_id) ==
    /\ HasSession(sessions, session_id)
    /\ sessions[session_id].ttl + ExtendBy <= TTL + MaxExtend
    /\ sessions' = extend_session(sessions, session_id, ExtendBy)
    /\ response' = [op |-> "session-extend", session_id |-> session_id]
    /\ UNCHANGED <<fn_vars, build_progress, tasks, graph_entities, graph_rels, vector_rows, llm,
                   request, nl_query, turns, flow>>

\* GET /conversation/session/{session_id}: 404 when get_session returns None
session_get(session_id) ==
    /\ response' = [op |-> "session-get", session_id |-> session_id,
                    status_code |-> IF HasSession(sessions, session_id) THEN 200 ELSE 404]
    /\ UNCHANGED <<fn_vars, build_progress, tasks, graph_entities, graph_rels, vector_rows, llm,
                   request, nl_query, sessions, turns, flow>>

\* the number of the last message a session was given
LastNumber(history) == IF history = << >> THEN 0 ELSE history[Len(history)].number

\* add_message(session_id, role, content) by any caller
session_add_message(session_id, role) ==
    /\ HasSession(sessions, session_id)
    /\ LET history == get_session(sessions, session_id).conversation_history
       IN  /\ LastNumber(history) < HistoryLimit + MaxAdded
           /\ \E ok \in BOOLEAN :
                 sessions' = add_message(sessions, session_id,
                                         [role |-> role, number |-> LastNumber(history) + 1], ok)
    /\ response' = [op |-> "add_message", session_id |-> session_id]
    /\ UNCHANGED <<fn_vars, build_progress, tasks, graph_entities, graph_rels, vector_rows, llm,
                   request, nl_query, turns, flow>>

\* POST /conversation/session/{session_id}/reset: 404 when reset_session
\* returns None
session_reset(session_id) ==
    /\ sessions' = reset_session(sessions, session_id, TRUE)
    /\ response' = [op |-> "reset", session_id |-> session_id,
                    status_code |-> IF HasSession(sessions, session_id) THEN 200 ELSE 404]
    /\ UNCHANGED <<fn_vars, build_progress, tasks, graph_entities, graph_rels, vector_rows, llm,
                   request, nl_query, turns, flow>>

redis_tick ==
    /\ \A k \in DOMAIN sessions : sessions[k].idle < MaxIdle
    /\ sessions' = RedisTick(sessions)
    /\ UNCHANGED <<fn_vars, build_progress, tasks, graph_entities, graph_rels, vector_rows, llm,
                   response, request, nl_query, turns, flow>>

\* ------------------------------------------------------------------------
\* Flow store (services/flow_store.py): intents, conditions and the edges
\* between them.  A flow F is [intents, conditions, requires, edges,
\* actions]: `requires` the conditions of the intent in their order, `edges`
\* the NEXT and BRANCH edges in their order, `actions` the conditions with a
\* SATISFIED action.
\* ------------------------------------------------------------------------
MaxWalk == 5

ConditionIds == {"cond_product", "c1", "c2"}

\* ConditionNode.name: the key under which the answer is collected
ConditionName(condition_id) ==
    CASE condition_id = "cond_product" -> "product_type"
      [] condition_id = "c1" -> "claim_reason"
      [] OTHER -> "subscription_period"

\* get_condition: None for a node that is not there
HasCondition(F, condition_id) == condition_id \in F.conditions

\* the intents of seed_insurance_flow: their ids (intent_claim) are not
\* "intent_" + name, so get_intent(f"intent_{name}") does not find them
SeededIntents == {"claim"}

\* get_intent(f"intent_{name}") or match_intent(message)
HasIntent(F, name, message) ==
    name \in F.intents \ SeededIntents \/ (message.intent_kw /\ F.intents # {})

\* match_intent: an active intent with a keyword in the message
match_intent(F, message) ==
    IF message.intent_kw /\ F.intents # {} THEN CHOOSE n \in F.intents : TRUE ELSE NoneVal

\* a BRANCH edge whose r.condition is null or empty
NoExpr == [key |-> NoneVal, value |-> NoneVal]

\* _evaluate_condition made to answer True for every expression
evaluate_condition_always(when, values, intent) == TRUE

\* _evaluate_condition: eval of "key == 'value'"; a NameError gives False
evaluate_condition(when, values, intent) ==
    IF when.key = "intent" THEN intent = when.value
    ELSE when.key \in DOMAIN values /\ values[when.key] = when.value

\* get_next_conditions: the targets of the NEXT edges and of the BRANCH edges
\* whose condition holds, in the order of the edges
RECURSIVE NextOf(_, _, _, _, _)
NextOf(F, edges, condition_id, values, intent) ==
    IF edges = << >> THEN << >>
    ELSE LET e == Head(edges)
             rest == NextOf(F, Tail(edges), condition_id, values, intent)
         IN  IF /\ e.from = condition_id
                /\ e.from \in F.conditions /\ e.to \in F.conditions
                /\ ((e.kind = "BRANCH" /\ e.when # NoExpr)
                       => evaluate_condition(e.when, values, intent))
             THEN << e.to >> \o rest
             ELSE rest

get_next_conditions(F, condition_id, values, intent) ==
    NextOf(F, F.edges, condition_id, values, intent)

\* get_action_for_condition
HasAction(F, condition_id) == condition_id \in F.actions /\ condition_id \in F.conditions

\* get_conditions_for_intent
get_conditions_for_intent(F) == SelectSeq(F.requires, LAMBDA c : c \in F.conditions)

\* `if condition_id in visited` of find_next_unfulfilled, made never to hold
AlreadyVisited_never(condition_id, visited) == FALSE

\* `if condition_id in visited` of find_next_unfulfilled
AlreadyVisited(condition_id, visited) == condition_id \in visited

NoWalk == [visited |-> {}, trace |-> << >>, found |-> NoneVal]

\* find_next_unfulfilled and the loops that call it; `trace` lists the
\* conditions in the order the function goes past its visited check
RECURSIVE find_next_unfulfilled(_, _, _, _, _)
RECURSIVE FindInList(_, _, _, _, _)
find_next_unfulfilled(F, values, intent, condition_id, walk) ==
    IF AlreadyVisited(condition_id, walk.visited) \/ Len(walk.trace) > MaxWalk THEN walk
    ELSE LET w1 == [walk EXCEPT !.visited = @ \cup {condition_id},
                                !.trace = Append(@, condition_id)]
         IN  IF ~ HasCondition(F, condition_id) THEN w1
             ELSE IF ConditionName(condition_id) \notin DOMAIN values
             THEN [w1 EXCEPT !.found = condition_id]
             ELSE FindInList(F, values, intent,
                             get_next_conditions(F, condition_id, values, intent), w1)

FindInList(F, values, intent, conds, walk) ==
    IF conds = << >> \/ walk.found # NoneVal THEN walk
    ELSE FindInList(F, values, intent, Tail(conds),
                    find_next_unfulfilled(F, values, intent, Head(conds), walk))

\* lines 285-320: the search from the first conditions of the intent
FindUnfulfilled(F, values, intent) ==
    FindInList(F, values, intent, get_conditions_for_intent(F), NoWalk)

\* ------------------------------------------------------------------------
\* Conversation engine (services/conversation_engine.py): one turn is
\* process_message, which loads the session, runs the workflow
\* analyze_message -> check_conditions -> clarify | execute_action ->
\* generate_response, saves the session and answers.
\* ------------------------------------------------------------------------

\* ConversationMessage: `text` is "" or a question with a word to search for;
\* intent_kw: the text has a keyword of the intent; product_kw: the text has
\* one of the product keywords of _extract_document_context
ChatMessages ==
    { [text |-> "", intent_kw |-> FALSE, product_kw |-> FALSE] }
    \cup { [text |-> "q", intent_kw |-> ik, product_kw |-> pk] : ik, pk \in BOOLEAN }

SelectedOptions == {NoneVal, "optA"}

\* the flows of the flow store: the claim intent of the seeded flow (it
\* requires the product, then the reason, then searches) and an empty store
SeedFlow ==
    [intents |-> {"claim"}, conditions |-> {"cond_product", "c1"},
     requires |-> << "cond_product" >>,
     edges |-> << [from |-> "cond_product", to |-> "c1", kind |-> "NEXT", when |-> NoneVal] >>,
     actions |-> {"c1"}]

ConvFlows == {SeedFlow, NoFlow}

\* delete_condition: DETACH DELETE of the node (its edges go with it)
delete_condition(F, condition_id) ==
    [F EXCEPT !.conditions = @ \ {condition_id}, !.actions = @ \ {condition_id}]

\* process_message, lines 831-856: the WorkflowState of a new turn; `raised`
\* marks an exception that leaves a node (not a key of the dict)
InitialState(session_state, message, selected_option) ==
    [user_message |-> message,
     original_query |-> IF "__original_query__" \in DOMAIN session_state.collected_values
                        THEN session_state.collected_values["__original_query__"]
                        ELSE NoneVal,
     selected_option |-> selected_option,
     current_intent |-> session_state.current_intent,
     current_node_id |-> session_state.current_node_id,
     collected_values |-> session_state.collected_values,
     document_context |-> session_state.document_context,
     next_action |-> "", response_message |-> "", needs_input |-> FALSE,
     search_results |-> NoneVal, is_complete |-> FALSE, error |-> FALSE,
     classified |-> FALSE, raised |-> FALSE]

Raise(state) == [state EXCEPT !.raised = TRUE]

\* _find_document_id: loop.run_until_complete on the thread of the running
\* event loop raises RuntimeError, which the function catches: None
find_document_id(row) == NoneVal

\* _extract_document_context
extract_document_context(message) ==
    IF message.product_kw THEN find_document_id("docA") ELSE NoneVal

\* _detect_intent: match_intent, then _classify_intent_with_llm, which
\* answers None for an empty intent list and when the LLM call fails
detect_intent(F, message, llm_intent) ==
    IF match_intent(F, message) # NoneVal THEN match_intent(F, message)
    ELSE IF F.intents = {} THEN NoneVal
    ELSE llm_intent

\* an analysis that collects nothing and classifies nothing
analyze_message_forgets(state, F, db_ok, llm_intent) ==
    IF ~ db_ok THEN Raise(state) ELSE state

\* _analyze_message; db_ok: the flow store answers (its driver raises
\* otherwise, and only _classify_intent_with_llm catches that)
analyze_message(state, F, db_ok, llm_intent) ==
    LET answering == state.selected_option # NoneVal /\ state.current_node_id # NoneVal
    IN
    IF answering /\ ~ db_ok THEN Raise(state)
    ELSE IF answering /\ HasCondition(F, state.current_node_id)
    THEN [state EXCEPT !.collected_values =
             SetValue(@, ConditionName(state.current_node_id), state.selected_option)]
    ELSE IF state.current_intent # NoneVal /\ state.document_context # NoneVal
    THEN state
    ELSE IF ~ db_ok THEN Raise(state)
    ELSE LET save == state.user_message.text # "" /\ state.original_query = NoneVal
             s1 == IF save
                   THEN [state EXCEPT !.original_query = state.user_message.text,
                                      !.collected_values =
                                          SetValue(@, "__original_query__",
                                                   state.user_message.text)]
                   ELSE state
             s2 == [s1 EXCEPT !.current_intent = detect_intent(F, state.user_message,
                                                               llm_intent),
                              !.classified = TRUE]
             doc_context == extract_document_context(state.user_message)
         IN  IF doc_context # NoneVal
             THEN [s2 EXCEPT !.document_context = doc_context,
                             !.collected_values = SetValue(@, "document_id", doc_context)]
             ELSE s2

GoTo(state, next_action) == [state EXCEPT !.next_action = next_action]
Ask(state, condition_id) ==
    [state EXCEPT !.current_node_id = condition_id, !.next_action = "clarify"]

\* the first of the conditions whose name is not collected, or None
RECURSIVE FirstUncollected(_, _)
FirstUncollected(conds, values) ==
    IF conds = << >> THEN NoneVal
    ELSE IF ConditionName(Head(conds)) \notin DOMAIN values THEN Head(conds)
    ELSE FirstUncollected(Tail(conds), values)

\* _check_conditions
check_conditions(state, F, db_ok) ==
    IF state.current_intent = NoneVal
    THEN IF "product_type" \in DOMAIN state.collected_values THEN GoTo(state, "execute")
         ELSE IF ~ db_ok THEN Raise(state)
         ELSE IF HasCondition(F, "cond_product") THEN Ask(state, "cond_product")
         ELSE GoTo(state, "execute")
    ELSE IF ~ db_ok THEN GoTo(state, "execute")
    ELSE IF ~ HasIntent(F, state.current_intent, state.user_message)
    THEN GoTo(state, "execute")
    ELSE LET next_cond ==
                 IF state.current_node_id = NoneVal THEN NoneVal
                 ELSE FirstUncollected(
                          get_next_conditions(F, state.current_node_id,
                                              state.collected_values, state.current_intent),
                          state.collected_values)
             walk == FindUnfulfilled(F, state.collected_values, state.current_intent)
         IN  IF next_cond # NoneVal THEN Ask(state, next_cond)
             ELSE IF state.current_node_id # NoneVal /\ HasAction(F, state.current_node_id)
             THEN GoTo(state, "execute")
             ELSE IF walk.found # NoneVal THEN Ask(state, walk.found)
             ELSE GoTo(state, "execute")

\* _route_after_check
route_after_check(state) == IF state.next_action = "" THEN "execute" ELSE state.next_action

\* _clarify
clarify(state, F, db_ok) ==
    IF ~ db_ok THEN Raise(state)
    ELSE IF ~ HasCondition(F, state.current_node_id)
    THEN [state EXCEPT !.error = TRUE, !.next_action = "end"]
    ELSE [state EXCEPT !.response_message = "question", !.needs_input = TRUE,
                       !.is_complete = FALSE]

\* the search query taken from the message of the turn
build_search_query_own(state) == state.user_message.text

\* _build_search_query and the keywords of lines 367-377
build_search_query(state) ==
    IF state.original_query # NoneVal /\ state.original_query # ""
    THEN state.original_query ELSE state.user_message.text

Keywords(query) == IF query = "" THEN << >> ELSE << query >>

\* _execute_action: GraphStore has no attribute search_with_context, so the
\* first keyword raises AttributeError, which the node catches
execute_action(state) ==
    IF Keywords(build_search_query(state)) = << >>
    THEN [state EXCEPT !.search_results = << >>]
    ELSE [state EXCEPT !.error = TRUE, !.search_results = << >>]

\* _call_llm_for_answer: without results the fixed not-found text
call_llm_for_answer(state) ==
    IF state.search_results = << >> THEN "not-found" ELSE "answer"

\* _generate_response
generate_response(state) ==
    [state EXCEPT !.response_message = call_llm_for_answer(state),
                  !.is_complete = TRUE, !.needs_input = FALSE]

\* what a turn read from the session and was sent, kept with its response
TurnInput(t) ==
    [selected_option |-> t.state.selected_option,
     current_intent |-> t.session_state.current_intent,
     document_context |-> t.session_state.document_context]

\* ConversationResponse of a turn whose workflow returned (lines 887-899)
ChatResponse(session_id, t) ==
    [op |-> "chat", session_id |-> session_id, message |-> t.state.response_message,
     needs_input |-> t.state.needs_input, is_complete |-> t.state.is_complete,
     error |-> t.state.error, raised |-> FALSE, path |-> t.path,
     input |-> TurnInput(t), classified |-> t.state.classified,
     document_context |-> t.state.document_context]

\* ConversationResponse of a turn whose workflow raised (lines 861-867)
ChatFailure(session_id, t) ==
    [op |-> "chat", session_id |-> session_id, message |-> "workflow-error",
     needs_input |-> FALSE, is_complete |-> TRUE,
     error |-> TRUE, raised |-> TRUE, path |-> t.path,
     input |-> TurnInput(t), classified |-> t.state.classified,
     document_context |-> t.state.document_context]

\* a request whose turn has started and has not answered
InTurn(t) == t.pc \notin {"idle", "queued"}

\* chat is `async def` and calls process_message without an await: the one
\* event loop of the server runs a turn to its end before it starts the
\* handler of the next request.  Made to start whenever a request waits:
CanStartTurn_always(i) == TRUE

CanStartTurn(i) == \A j \in ChatSlots : ~ InTurn(turns[j])

\* get_or_create_session: a session the store has, or a new one under a
\* new uuid
FreshSession(S) == CHOOSE s \in SessionIds : s \notin DOMAIN S

\* a POST /conversation/chat request for the session has reached the server
chat_arrive(i, session_id) ==
    /\ turns[i].pc = "idle"
    /\ turns' = [turns EXCEPT ![i] = [pc |-> "queued", session_id |-> session_id]]
    /\ UNCHANGED <<fn_vars, build_progress, tasks, graph_entities, graph_rels, vector_rows, llm,
                   response, request, nl_query, sessions, flow>>

\* the handler of the request starts: process_message up to workflow.invoke;
\* the request has no response yet
chat(i, message, selected_option) ==
    /\ turns[i].pc = "queued"
    /\ CanStartTurn(i)
    /\ LET session_id == turns[i].session_id
           known == session_id # NoneVal /\ HasSession(sessions, session_id)
           session_state == IF known THEN get_session(sessions, session_id)
                            ELSE NewState(FreshSession(sessions))
       IN  /\ known \/ SessionIds \ DOMAIN sessions # {}
           /\ sessions' = IF known THEN sessions ELSE save_state(sessions, session_state, TRUE)
           /\ turns' = [turns EXCEPT ![i] =
                 [pc |-> "analyze_message", session_id |-> session_state.session_id,
                  session_state |-> session_state,
                  state |-> InitialState(session_state, message, selected_option),
                  path |-> << "analyze_message" >>]]
    /\ response' = NoResponse
    /\ UNCHANGED <<fn_vars, build_progress, tasks, graph_entities, graph_rels, vector_rows, llm,
                   request, nl_query, flow>>

\* a node whose exception does not end the turn: process_message goes on to
\* save the session
NodeDone_saving(i, state, next) ==
    /\ turns' = [turns EXCEPT ![i].state = state,
                              ![i].pc = IF state.raised THEN "END" ELSE next,
                              ![i].path = Append(@, IF state.raised THEN "END" ELSE next)]
    /\ UNCHANGED response

\* a node of the workflow has run: the turn is at the next node, or the
\* exception of the node has left workflow.invoke and process_message answers
NodeDone(i, state, next) ==
    IF state.raised
    THEN /\ response' = ChatFailure(turns[i].session_state.session_id,
                                    [turns[i] EXCEPT !.state = state])
         /\ turns' = [turns EXCEPT ![i] = NoTurn]
    ELSE /\ turns' = [turns EXCEPT ![i].state = state, ![i].pc = next,
                                   ![i].path = Append(@, next)]
         /\ UNCHANGED response

chat_analyze_message(i) ==
    /\ turns[i].pc = "analyze_message"
    /\ \E db_ok \in BOOLEAN, llm_intent \in {NoneVal, "claim"} :
          NodeDone(i, analyze_message(turns[i].state, flow, db_ok, llm_intent),
                   "check_conditions")
    /\ UNCHANGED <<fn_vars, build_progress, tasks, graph_entities, graph_rels, vector_rows, llm,
                   request, nl_query, sessions, flow>>

chat_check_conditions(i) ==
    /\ turns[i].pc = "check_conditions"
    /\ \E db_ok \in BOOLEAN :
          LET state == check_conditions(turns[i].state, flow, db_ok)
              route == route_after_check(state)
          IN  NodeDone(i, state, CASE route = "clarify" -> "clarify"
                                   [] route = "execute" -> "execute_action"
                                   [] OTHER -> "END")
    /\ UNCHANGED <<fn_vars, build_progress, tasks, graph_entities, graph_rels, vector_rows, llm,
                   request, nl_query, sessions, flow>>

chat_clarify(i) ==
    /\ turns[i].pc = "clarify"
    /\ \E db_ok \in BOOLEAN : NodeDone(i, clarify(turns[i].state, flow, db_ok), "END")
    /\ UNCHANGED <<fn_vars, build_progress, tasks, graph_entities, graph_rels, vector_rows, llm,
                   request, nl_query, sessions, flow>>

chat_execute_action(i) ==
    /\ turns[i].pc = "execute_action"
    /\ NodeDone(i, execute_action(turns[i].state), "generate_response")
    /\ UNCHANGED <<fn_vars, build_progress, tasks, graph_entities, graph_rels, vector_rows, llm,
                   request, nl_query, sessions, flow>>

chat_generate_response(i) ==
    /\ turns[i].pc = "generate_response"
    /\ NodeDone(i, generate_response(turns[i].state), "END")
    /\ UNCHANGED <<fn_vars, build_progress, tasks, graph_entities, graph_rels, vector_rows, llm,
                   request, nl_query, sessions, flow>>

\* process_message after workflow.invoke (lines 869-899): the two
\* add_message calls, then update_session with the state the turn loaded
chat_respond(i) ==
    /\ turns[i].pc = "END"
    /\ LET t == turns[i]
           session_id == t.session_state.session_id
           session_state == [t.session_state EXCEPT
                                !.current_intent = t.state.current_intent,
                                !.current_node_id = t.state.current_node_id,
                                !.collected_values = t.state.collected_values,
                                !.document_context = t.state.document_context]
           S1 == add_message(sessions, session_id, "user", TRUE)
           S2 == IF t.state.response_message # ""
                 THEN add_message(S1, session_id, "assistant", TRUE) ELSE S1
       IN  /\ sessions' = update_session(S2, session_state, TRUE)
           /\ response' = ChatResponse(session_id, t)
           /\ turns' = [turns EXCEPT ![i] = NoTurn]
    /\ UNCHANGED <<fn_vars, build_progress, tasks, graph_entities, graph_rels, vector_rows, llm,
                   request, nl_query, flow>>

\* a client of the flow database deletes a condition (DELETE
\* /conversation/flow/condition/{id} of another server process, or any other
\* client of Neo4j); the database serves it while a turn is between two of
\* its own queries
flow_delete_condition(condition_id) ==
    /\ HasCondition(flow, condition_id)
    /\ flow' = delete_condition(flow, condition_id)
    /\ UNCHANGED <<fn_vars, build_progress, tasks, graph_entities, graph_rels, vector_rows, llm,
                   response, request, nl_query, sessions, turns>>

\* SessionStore.set_document_context, called in the server process for a
\* session (the chat handler itself never finds a document)
store_set_document_context(session_id) ==
    /\ \A j \in ChatSlots : ~ InTurn(turns[j])
    /\ HasSession(sessions, session_id)
    /\ get_session(sessions, session_id).document_context = NoneVal
    /\ sessions' = set_document_context(sessions, session_id, "docA", TRUE)
    /\ UNCHANGED <<fn_vars, build_progress, tasks, graph_entities, graph_rels, vector_rows, llm,
                   response, request, nl_query, turns, flow>>

\* ------------------------------------------------------------------------
\* GET /backup/export/{dataset_id} as a request of its own, and the files of
\* a client that restores a dataset from its export
\* ------------------------------------------------------------------------
\* a JSON document without "entities"
NoEntities == [metadata |-> [dataset_id |-> "ds1"]]

\* the documents import_dataset is to refuse at lines 148-155
InvalidFiles == {JsonFile(NoMetadata), JsonFile(NoEntities), JsonFile(HandWritten)}

\* GET /backup/export/{dataset_id}: the response carries the JSON document
backup_export(d) ==
    /\ request.pc = "idle"
    /\ response' = [op |-> "export", dataset_id |-> d, status_code |-> 200,
                    data |-> export_dataset(graph_entities, graph_rels, d)]
    /\ UNCHANGED <<build_progress, tasks, graph_entities, graph_rels, vector_rows, llm,
                   request, nl_query, conv_vars, fn_vars>>

\* POST /backup/import of the file just exported, merge=false and no
\* target_dataset_id
backup_restore ==
    /\ response.op = "export"
    /\ import_dataset(JsonFile(response.data), NoneVal, FALSE, {RequestOk})

\* ------------------------------------------------------------------------
\* FlowStore.match_intent on FlowIntent nodes with their keywords, priority
\* and is_active.  Messages and keywords are sequences of characters.
\* ------------------------------------------------------------------------
IntentKeywords == {<<Namea>>, <<NameA, Nameb>>}
Priorities == {8, 10}

\* the FlowIntent node of an id
IntentNodes(id) ==
    [id : {id}, keywords : IntentKeywords, priority : Priorities, is_active : BOOLEAN]

\* the contents of the flow store: at most one node per id
IntentStores ==
    { n1 \cup n2 : n1 \in {{}} \cup {{x} : x \in IntentNodes("intent_claim")},
                   n2 \in {{}} \cup {{x} : x \in IntentNodes("intent_cancel")} }

UserMessages == SeqsUpTo({"a", "A", "b"}, 2)

\* WHERE n.is_active = true AND ANY(keyword IN n.keywords WHERE $message
\* CONTAINS keyword): CONTAINS compares the characters as they are
MatchingNodes(nodes, user_message) ==
    {n \in nodes : n.is_active
                    /\ \E i \in DOMAIN n.keywords : Contains(user_message, n.keywords[i])}

\* ORDER BY n.priority DESC LIMIT 1: any one of the best rows, or None; an
\* answer is the set of the node returned, empty for None
MatchAnswers(nodes, user_message) ==
    LET rows == MatchingNodes(nodes, user_message)
    IN  IF rows = {} THEN {{}}
        ELSE {{n} : n \in {y \in rows : \A x \in rows : y.priority >= x.priority}}

\* match_intent(user_message) on a flow store holding `nodes`
flow_match_intent(nodes, user_message) ==
    /\ \E answer \in MatchAnswers(nodes, user_message) :
          matching' = [pc |-> "done", nodes |-> nodes, user_message |-> user_message,
                       answer |-> answer]
    /\ UNCHANGED <<build_progress, tasks, graph_entities, graph_rels, vector_rows, llm,
                   response, request, nl_query, conv_vars, search>>

\* ------------------------------------------------------------------------
\* Hybrid search (services/hybrid_search.py).  A score of the fusion is a
\* sum of fractions 1 / (k + rank + 1); it is kept here as the whole number
\* of ScoreUnit-ths it amounts to, ScoreUnit being a common multiple of
\* every denominator that occurs.
\* ------------------------------------------------------------------------
MaxResults == 3        \* the longest list a store returns to one search

\* settings.rrf_k
rrf_k == 60

SearchIds == {"e1", "e2", "e3"}
SearchModes == {"vector", "graph", "hybrid"}
TopKs == {1, 2}

\* e.confidence of an entity, in tenths
Confidences == {5, 10}

RECURSIVE Product(_, _)
Product(from, to) == IF from > to THEN 1 ELSE from * Product(from + 1, to)

ScoreUnit == Product(rrf_k + 1, rrf_k + MaxResults)

\* 1.0 / (k + rank + 1), rank counted from 0
rrf_score(k, rank) == ScoreUnit \div (k + rank + 1)

Limit(top_k) == IF top_k * 2 < MaxResults THEN top_k * 2 ELSE MaxResults

\* vector_store.search: the hits of one search, best first; the collection
\* may hold several rows of one id
VectorResults(top_k) ==
    {[i \in DOMAIN ids |-> [id |-> ids[i], score |-> Len(ids) - i, source |-> "vector"]] :
        ids \in SeqsUpTo(SearchIds, Limit(top_k))}

\* graph_store.search_entities (MATCH (e:Entity) ... ORDER BY e.confidence
\* DESC LIMIT $limit) as lines 119-129 format it: one item per node, the
\* node's confidence as its score
GraphResults(top_k) ==
    {items \in SeqsUpTo([id : SearchIds, score : Confidences, source : {"graph"}],
                        Limit(top_k)) :
        /\ \A i, j \in DOMAIN items : i < j => /\ items[i].id # items[j].id
                                               /\ items[i].score >= items[j].score}

\* lines 55-75: one pass over a result list; `order` is the order in which
\* the dict `items` got its keys
RECURSIVE FuseList(_, _, _, _, _)
FuseList(acc, list, rank, name, k) ==
    IF rank >= Len(list) THEN acc
    ELSE LET item == list[rank + 1]
             item_id == item.id
             known == item_id \in DOMAIN acc.items
             prev == IF item_id \in DOMAIN acc.scores THEN acc.scores[item_id] ELSE 0
             entry == IF known
                      THEN [acc.items[item_id] EXCEPT !.sources = Append(@, name)]
                      ELSE [id |-> item_id, score |-> item.score, source |-> item.source,
                            sources |-> <<name>>]
         IN  FuseList([scores |-> (item_id :> prev + rrf_score(k, rank)) @@ acc.scores,
                       items |-> (item_id :> entry) @@ acc.items,
                       order |-> IF known THEN acc.order ELSE Append(acc.order, item_id)],
                      list, rank + 1, name, k)

\* sorted(..., reverse=True) that puts the later of two items with equal
\* keys first
RECURSIVE SortedByScore_tiesReversed(_, _)
SortedByScore_tiesReversed(order, scores) ==
    IF order = << >> THEN << >>
    ELSE LET n == Len(order)
             last == order[n]
             rest == SortedByScore_tiesReversed(SubSeq(order, 1, n - 1), scores)
             before == {i \in DOMAIN rest : scores[rest[i]] > scores[last]}
             at == IF before = {} THEN 0 ELSE CHOOSE i \in before : \A j \in before : j <= i
         IN  SubSeq(rest, 1, at) \o <<last>> \o SubSeq(rest, at + 1, Len(rest))

\* sorted(..., reverse=True) is stable: of two items with equal keys the one
\* that comes first in the input comes first in the output
RECURSIVE SortedByScore(_, _)
SortedByScore(order, scores) ==
    IF order = << >> THEN << >>
    ELSE LET n == Len(order)
             last == order[n]
             rest == SortedByScore(SubSeq(order, 1, n - 1), scores)
             before == {i \in DOMAIN rest : scores[rest[i]] >= scores[last]}
             at == IF before = {} THEN 0 ELSE CHOOSE i \in before : \A j \in before : j <= i
         IN  SubSeq(rest, 1, at) \o <<last>> \o SubSeq(rest, at + 1, Len(rest))


\* _rrf_fusion, lines 41-89
rrf_fusion(vector_results, graph_results, k) ==
    LET empty == [scores |-> << >>, items |-> << >>, order |-> << >>]
        v == FuseList(empty, vector_results, 0, "vector", k)
        g == FuseList(v, graph_results, 0, "graph", k)
        sorted_ids == SortedByScore(g.order, g.scores)
    IN  [i \in DOMAIN sorted_ids |->
            LET item == g.items[sorted_ids[i]]
            IN  [id |-> item.id,
                 score |-> g.scores[item.id],
                 source |-> IF Len(item.sources) > 1 THEN "hybrid" ELSE item.sources[1],
                 sources |-> item.sources]]

\* lines 129-142: the list of the mode, cut to top_k
Combined(mode, vector_results, graph_results, top_k) ==
    LET combined == CASE mode = "hybrid" -> rrf_fusion(vector_results, graph_results, rrf_k)
                      [] mode = "vector" -> vector_results
                      [] OTHER -> graph_results
    IN  SubSeq(combined, 1, IF Len(combined) < top_k THEN Len(combined) ELSE top_k)

SearchDone(mode, top_k, vector_results, graph_results) ==
    [pc |-> "done", mode |-> mode, top_k |-> top_k,
     vector_results |-> vector_results, graph_results |-> graph_results,
     results |-> Combined(mode, vector_results, graph_results, top_k)]

\* HybridSearch.search up to `await self.vector_store.search`; a graph-mode
\* search has no await and runs to its end
hybrid_search(mode, top_k) ==
    /\ search.pc \in {"idle", "done"}
    /\ IF mode \in {"vector", "hybrid"}
       THEN search' = [pc |-> "await_vector", mode |-> mode, top_k |-> top_k]
       ELSE \E graph_results \in GraphResults(top_k) :
               search' = SearchDone(mode, top_k, << >>, graph_results)
    /\ UNCHANGED <<build_progress, tasks, graph_entities, graph_rels, vector_rows, llm,
                   response, request, nl_query, conv_vars, matching>>

\* the vector search has returned: the graph search, the fusion and the cut
hybrid_search_vector ==
    /\ search.pc = "await_vector"
    /\ \E vector_results \in VectorResults(search.top_k) :
          IF search.mode = "hybrid"
          THEN \E graph_results \in GraphResults(search.top_k) :
                  search' = SearchDone(search.mode, search.top_k, vector_results,
                                       graph_results)
          ELSE search' = SearchDone(search.mode, search.top_k, vector_results, << >>)
    /\ UNCHANGED <<build_progress, tasks, graph_entities, graph_rels, vector_rows, llm,
                   response, request, nl_query, conv_vars, matching>>

Init ==
    /\ build_progress = << >>
    /\ tasks = [i \in TaskIds |-> NoTask]
    /\ graph_entities = {}
    /\ graph_rels = {}
    /\ vector_rows = EmptyBag
    /\ llm = [t \in Texts |-> IF t = "t1" THEN AnsA ELSE AnsB]
    /\ response = NoResponse
    /\ request = IdleRequest(0)
    /\ nl_query = NoQuery
    /\ ConvIdle
    /\ SearchIdle

\* the registry under concurrent requests: every interleaving of start and
\* clear requests with the blocks of the tasks, external calls succeeding
Next ==
    \/ \E d \in Datasets, resume \in BOOLEAN : start_build(d, resume, FALSE)
    \/ \E d \in Datasets : update_page_mapping(d)
    \/ \E d \in Datasets : clear_progress(d)
    \/ \E i \in TaskIds : build_task_begin(i, NoFaults)
    \/ \E i \in TaskIds : build_task_documents(i, NoFaults)
    \/ \E i \in TaskIds : build_task_segments(i, NoFaults)
    \/ \E i \in TaskIds : build_task_vector(i, NoFaults)
    \/ \E i \in TaskIds : build_task_sleep(i, NoFaults)
    \/ \E i \in TaskIds : pages_task_begin(i, NoFaults)
    \/ \E i \in TaskIds : pages_task_documents(i, NoFaults)
    \/ \E i \in TaskIds : pages_task_segments(i, NoFaults)

Spec == Init /\ [][Next]_vars

\* ------------------------------------------------------------------------
\* Rebuilds: one build after the other has ended, against any deterministic
\* extractor, external calls succeeding, no request in between
\* ------------------------------------------------------------------------
InitResume ==
    /\ build_progress = << >>
    /\ tasks = [i \in TaskIds |-> NoTask]
    /\ graph_entities = {}
    /\ graph_rels = {}
    /\ vector_rows = EmptyBag
    /\ llm \in [Texts -> Answers]
    /\ response = NoResponse
    /\ request = IdleRequest(0)
    /\ nl_query = NoQuery
    /\ ConvIdle
    /\ SearchIdle

\* a start request once no task is queued or running; every build after the
\* first one is a resume build
start_rebuild(d, resume) ==
    /\ \A i \in TaskIds : ~ Live(tasks[i])
    /\ (\E i \in TaskIds : Ended(tasks[i])) => resume
    /\ start_build(d, resume, FALSE)

NextResume ==
    \/ \E d \in Datasets, resume \in BOOLEAN : start_rebuild(d, resume)
    \/ \E i \in TaskIds : build_task_begin(i, NoFaults)
    \/ \E i \in TaskIds : build_task_documents(i, NoFaults)
    \/ \E i \in TaskIds : build_task_segments(i, NoFaults)
    \/ \E i \in TaskIds : build_task_vector(i, NoFaults)
    \/ \E i \in TaskIds : build_task_sleep(i, NoFaults)

SpecResume == InitResume /\ [][NextResume]_vars

Completed(t) == Ended(t) /\ t.kind = "build" /\ t.final_status = "completed"

\* C1: when a build that processed k chunks (wrote their entities to the
\* graph store) is followed by a resume build of the same dataset,
\* skipped_segments at the end of the second build equals k.
C1_ResumeSkipEqualsDone ==
    \A d \in Datasets :
        (/\ Completed(tasks[1]) /\ tasks[1].dataset_id = d
         /\ Completed(tasks[2]) /\ tasks[2].dataset_id = d
         /\ \A j \in TaskIds : j > 2 => tasks[j].pc = "unused")
        => build_progress[d].skipped_segments = Cardinality(tasks[1].wrote)

EntityKeys(G) == {<<x.id, x.dataset_id, x.name>> : x \in G}
RelationshipKeys(R) == {<<r.source, r.target, r.id, r.type>> : r \in R}

\* C2: a resume build that follows a completed build of the same dataset
\* leaves the graph store with the same entities and the same relationships.
\* A build only adds nodes and edges, so the sets are the same at the end
\* exactly when no step of the resume build changes them.
C2_ResumeRebuildIdempotent ==
    [][\A i \in TaskIds :
          (/\ Running(tasks[i]) /\ tasks[i].kind = "build" /\ tasks[i].resume
           /\ \E j \in TaskIds : Completed(tasks[j]) /\ tasks[j].dataset_id = tasks[i].dataset_id)
          => /\ EntityKeys(graph_entities') = EntityKeys(graph_entities)
             /\ RelationshipKeys(graph_rels') = RelationshipKeys(graph_rels)]_vars

\* an entity of the list has this id, or this name (letter case disregarded)
EndpointIn(entities, id, name) ==
    \E k \in 1..Len(entities) :
        \/ entities[k].id # NoneId /\ entities[k].id = id
        \/ LowerStr(entities[k].name) = LowerStr(name)

\* C29: every relationship the extractor returns for a chunk has a source
\* and a target (the id and the name the relationship carries) that identify
\* an entity of the entities returned for the same chunk (checked under
\* SpecResume, on the chunk a build task has extracted).
C29_EndpointsInEntitySet ==
    \A i \in TaskIds :
        tasks[i].pc = "await_vec" =>
            \A k \in 1..Len(tasks[i].relationships) :
                LET r == tasks[i].relationships[k]
                IN  /\ EndpointIn(tasks[i].entities, r.source_entity_id, r.source_entity_name)
                    /\ EndpointIn(tasks[i].entities, r.target_entity_id, r.target_entity_name)

\* ------------------------------------------------------------------------
\* The two stores under one build and the ingest / delete / import requests,
\* any one store call of a request failing
\* ------------------------------------------------------------------------
\* the one build of a behaviour
start_one_build(d, resume, use_docling) ==
    /\ \A i \in TaskIds : tasks[i].pc = "unused"
    /\ start_build(d, resume, use_docling)

NextStores ==
    \/ \E resume \in BOOLEAN : start_one_build("ds1", resume, FALSE)
    \/ \E i \in TaskIds : build_task_begin(i, NoFaults)
    \/ \E i \in TaskIds : build_task_documents(i, NoFaults)
    \/ \E i \in TaskIds : build_task_segments(i, NoFaults)
    \/ \E i \in TaskIds : build_task_vector(i, NoFaults)
    \/ \E i \in TaskIds : build_task_sleep(i, NoFaults)
    \/ \E d \in Datasets, entities \in EntityLists, include_vectors \in BOOLEAN :
          ingest_entities(d, entities, include_vectors, RequestFaults)
    \/ ingest_entities_vector(RequestFaults)
    \/ \E d \in Datasets : delete_dataset(d, RequestFaults)
    \/ \E file \in ImportFiles, target \in Datasets \cup {NoneVal}, merge \in BOOLEAN :
          import_dataset(file, target, merge, RequestFaults)
    \/ import_dataset_vector(RequestFaults)

SpecStores == Init /\ [][NextStores]_vars

\* C3: every entity in the vector store for a dataset has an entity with the
\* same id and the same dataset_id in the graph store.
C3_StoreConsistency ==
    \A row \in BagToSet(vector_rows) : InDataset(graph_entities, row.id, row.dataset_id)

\* a relationship of the build: extract_all stamps it with the document it
\* was extracted from; the relationships a client imports by hand have none
BuildWritten(r) == r.source_document_id # NoneVal

\* C20: every relationship written to the graph store by the build has both
\* endpoint entities in the graph store with the relationship's dataset_id
\* (checked under SpecStores).
C20_EdgeEndpointClosure ==
    \A r \in graph_rels :
        BuildWritten(r) =>
            /\ InDataset(graph_entities, r.source, r.dataset_id)
            /\ InDataset(graph_entities, r.target, r.dataset_id)

\* the vector insert of POST /ingest/entities returns normally, and every
\* row it inserts (same id, same dataset) is in the collection already
InsertsAgain ==
    /\ request.pc = "await_vec" /\ request.op = "ingest_entities"
    /\ response'.status_code = 200
    /\ \A k \in 1..Len(request.entities) :
          BagIn(VectorRow(request.entities[k], request.dataset_id), vector_rows)

\* C21: inserting into the vector store an entity (same id, same dataset)
\* that it holds already leaves the store as it was, with exactly one record
\* for that id (checked under SpecStores).
C21_InsertIdempotent ==
    [][InsertsAgain =>
          /\ vector_rows' = vector_rows
          /\ \A row \in BagToSet(vector_rows') : CopiesIn(row, vector_rows') = 1]_vars

\* the build task i has just written the entities of a chunk to the graph
WritesChunk(i) ==
    /\ tasks[i].pc # "await_vec"
    /\ tasks'[i].pc = "await_vec" /\ tasks'[i].kind = "build"

\* C32: an entity the build writes from a chunk annotated with page p is
\* stored in the graph store with source_page = p, together with the chunk's
\* source_document_id, source_chunk_id and dataset_id (checked under
\* SpecStores).
C32_PageStored ==
    [][\A i \in TaskIds :
          WritesChunk(i) =>
              \A k \in DOMAIN tasks'[i].entities :
                  LET e == tasks'[i].entities[k]
                      d == tasks'[i].dataset_id
                  IN  e.source_page # NoPage =>
                          \E x \in graph_entities' :
                              /\ x.id = EntityIdOf(e, d)
                              /\ x.source_page = e.source_page
                              /\ x.source_document_id = e.source_document_id
                              /\ x.source_chunk_id = e.source_chunk_id
                              /\ x.dataset_id = d]_vars

\* C33: the set of processed chunk ids of a dataset only grows during
\* builds: a chunk id that get_processed_chunk_ids returns for the dataset
\* is still returned after every chunk write of a build (checked under
\* SpecStores).
C33_ProcessedChunksGrow ==
    [][(\E i \in TaskIds : WritesChunk(i)) =>
          \A d \in Datasets :
              get_processed_chunk_ids(graph_entities, d)
                  \subseteq get_processed_chunk_ids(graph_entities', d)]_vars

\* ------------------------------------------------------------------------
\* One build (with or without Docling), any one external call of a block
\* failing
\* ------------------------------------------------------------------------
NextFaults ==
    \/ \E d \in Datasets, resume \in BOOLEAN, use_docling \in BOOLEAN :
          start_one_build(d, resume, use_docling)
    \/ \E i \in TaskIds : build_task_begin(i, Faults)
    \/ \E i \in TaskIds : build_task_documents(i, Faults)
    \/ \E i \in TaskIds : build_task_segments(i, Faults)
    \/ \E i \in TaskIds : build_task_vector(i, Faults)
    \/ \E i \in TaskIds : build_task_sleep(i, Faults)

SpecFaults == Init /\ [][NextFaults]_vars

ChunkEntityIds(t) == {EntityIdOf(t.entities[k], t.dataset_id) : k \in 1..Len(t.entities)}
GraphIds(G, d) == {x.id : x \in {y \in G : y.dataset_id = d}}
VectorIds(V, d) == {row.id : row \in {y \in BagToSet(V) : y.dataset_id = d}}

\* C4: when the build has finished handling a chunk whose entities it wrote
\* (the vector insert returned or raised and the failure was caught), the
\* entities of the chunk are in both stores or in neither.
C4_ChunkWriteAtomic ==
    [][\A i \in TaskIds :
          (tasks[i].pc = "await_vec" /\ tasks[i].kind = "build" /\ tasks'[i].pc # "await_vec")
          => LET ids == ChunkEntityIds(tasks[i])
                 d == tasks[i].dataset_id
             IN  \/ (ids \subseteq GraphIds(graph_entities', d)
                      /\ ids \subseteq VectorIds(vector_rows', d))
                 \/ (ids \cap GraphIds(graph_entities', d) = {}
                      /\ ids \cap VectorIds(vector_rows', d) = {})]_vars

\* the build task has its documents and is at one of them
AtDocuments(t) == t.pc \in {"await_segs", "await_vec", "sleep"} /\ t.kind = "build"

\* C25: a failure while processing one chunk or one document never turns the
\* build's status into error: every chunk the task is done with, failed or
\* not, is counted in completed_segments, the failed document is counted in
\* completed_documents, and the build goes on to complete with every
\* document and every chunk counted (checked under SpecFaults).
C25_FailuresDoNotFailBuild ==
    [][\A i \in TaskIds :
          AtDocuments(tasks[i]) =>
              LET d == tasks[i].dataset_id
                  p == build_progress[d]
                  q == build_progress'[d]
              IN  /\ tasks'[i].pc \in {"await_segs", "await_vec", "sleep", "done"}
                  /\ q.status = IF tasks'[i].pc = "done" THEN "completed" ELSE "building"
                  /\ (tasks[i].pc = "await_vec" \/ tasks'[i].pc = "sleep")
                        => q.completed_segments > p.completed_segments
                  /\ (tasks'[i].pc = "done" \/ tasks'[i].doc_idx > tasks[i].doc_idx)
                        => q.completed_documents > p.completed_documents
                  /\ tasks'[i].pc = "done"
                        => /\ q.completed_documents = q.total_documents
                           /\ q.completed_segments = q.total_segments]_vars

\* a build has completed with every document and chunk counted although the
\* vector insert of a chunk raised (the chunk's entities are in the graph
\* store only) or the segments of a document could not be fetched
C25_Witness ==
    \E d \in DOMAIN build_progress :
        LET p == build_progress[d]
        IN  /\ p.status = "completed"
            /\ p.completed_documents = p.total_documents
            /\ p.completed_segments = p.total_segments
            /\ \/ GraphIds(graph_entities, d) \ VectorIds(vector_rows, d) # {}
               \/ p.total_segments = 0

\* C40: in every state of a build the counters of its record are consistent:
\* completed_segments <= total_segments, skipped_segments <=
\* completed_segments and completed_documents <= total_documents; and a
\* record with status completed has completed_documents = total_documents.
C40_CountersConsistent ==
    \A d \in DOMAIN build_progress :
        LET p == build_progress[d]
        IN  /\ p.completed_segments <= p.total_segments
            /\ p.skipped_segments <= p.completed_segments
            /\ p.completed_documents <= p.total_documents
            /\ p.status = "completed" => p.completed_documents = p.total_documents

\* ------------------------------------------------------------------------
\* nl-query requests against the stores as one extracted chunk leaves them
\* (or empty)
\* ------------------------------------------------------------------------
SeedChunk == ExtractAll(AnsB, "docA", <<"docA", "seg", 0>>)
SeedEntities == create_entities_batch({}, SeedChunk.entities, "ds1")

InitNL ==
    /\ build_progress = << >>
    /\ tasks = [i \in TaskIds |-> NoTask]
    /\ \/ /\ graph_entities = {}
          /\ graph_rels = {}
          /\ vector_rows = EmptyBag
       \/ /\ graph_entities = SeedEntities
          /\ graph_rels = create_relationships_batch(SeedEntities, {}, SeedChunk.relationships, "ds1")
          /\ vector_rows = insert_entities_batch(EmptyBag, SeedChunk.entities, "ds1")
    /\ llm = [t \in Texts |-> AnsB]
    /\ response = NoResponse
    /\ request = IdleRequest(0)
    /\ nl_query = NoQuery
    /\ ConvIdle
    /\ SearchIdle

NextNL ==
    \/ \E req \in NLRequests : natural_language_query(req)
    \/ nl_query_llm
    \/ nl_query_cypher
    \/ nl_query_hybrid
    \/ nl_query_narrative

SpecNL == InitNL /\ [][NextNL]_vars

\* the request a step belongs to
StepQuery == IF nl_query'.pc # "idle" THEN nl_query' ELSE nl_query

\* C10: when the LLM's query string contains DELETE, REMOVE, DROP, CREATE,
\* SET or MERGE in any letter case, execute_cypher is never called with it
\* (nor with any text that contains one of the verbs), no step of the request
\* changes the stored entities, relationships or vectors, and the request
\* leaves the NL-to-Cypher stage only to the hybrid-search fallback.
C10_NLQuerySafety ==
    [][(StepQuery.pc # "idle" /\ StepQuery.llm_called /\ HasVerb(StepQuery.raw))
        => /\ StepQuery.raw \notin StepQuery.executed
           /\ \A query \in StepQuery.executed : ~ HasVerb(query)
           /\ UNCHANGED <<graph_entities, graph_rels, vector_rows>>
           /\ nl_query.pc \in {"await_llm", "await_cypher"}
                 => \/ nl_query'.pc = "await_hybrid" /\ nl_query'.used_fallback
                    \/ nl_query.pc = "await_llm" /\ nl_query'.pc = "await_cypher"]_vars

\* a request whose LLM answered a query with a verb in mixed or lower case
\* awaits the hybrid search, nothing executed, the stores holding entities
C10_Witness ==
    /\ nl_query.pc = "await_hybrid"
    /\ nl_query.llm_called
    /\ HasVerb(nl_query.raw)
    /\ Upper(nl_query.raw) # nl_query.raw
    /\ StartsWith(nl_query.raw, MatchN)
    /\ nl_query.executed = {}
    /\ graph_entities # {}

\* the graph sources of the nl-query path in their order
LayerOrder == << "neighborhood", "hybrid", "text", "sample" >>
LayerRank(name) == CHOOSE k \in DOMAIN LayerOrder : LayerOrder[k] = name

\* C37: the nl-query path tries its graph sources in the order neighborhood
\* of the first entity of the query's rows, hybrid search, graph text search,
\* dataset sample graph, and uses the first that yields a graph: the sources
\* it called are in that order, the one it uses is the last it called, and a
\* sample graph is used only after the hybrid search and the text search
\* were called; and no step of these layers answers with a failure (checked
\* under SpecNL).
C37_LayerOrder ==
    [][nl_query.pc \in {"await_cypher", "await_hybrid"} =>
          /\ nl_query'.pc = "idle" => response'.status_code # 500
          /\ nl_query'.pc = "await_narrative" =>
                LET tried == nl_query'.tried
                IN  /\ \A a, b \in DOMAIN tried :
                          a < b => LayerRank(tried[a]) < LayerRank(tried[b])
                    /\ tried # << >> /\ nl_query'.source = tried[Len(tried)]
                    /\ nl_query'.source = "sample" =>
                          \E a, b \in DOMAIN tried : tried[a] = "hybrid" /\ tried[b] = "text"]_vars

\* ------------------------------------------------------------------------
\* GraphStore.execute_cypher called on its own, by any caller, with any text
\* ------------------------------------------------------------------------
\* the texts the callers pass: reading queries, and queries with each verb
\* in upper and in lower case, after a MATCH or at the start
CypherQueries ==
    { MatchN \o ReturnN,
      MatchN \o << " ", "W", "H", "E", "R", "E", " ", "n", ".", "i", "d" >> \o ReturnN,
      << "R", "E", "T", "U", "R", "N", " ", "1" >>,
      << "n", "o", "t", " ", "c", "y", "p", "h", "e", "r" >> }
    \cup UNION { { MatchN \o << " " >> \o v \o << " ", "n" >>, v \o << " ", "n" >> } :
                 v \in {dangerous_keywords[k] : k \in DOMAIN dangerous_keywords}
                       \cup {[i \in 1..Len(dangerous_keywords[k]) |->
                                DownChar(dangerous_keywords[k][i])] :
                             k \in DOMAIN dangerous_keywords} }

\* a call of GraphStore.execute_cypher(query) and what it returns
graph_execute_cypher(query) ==
    /\ \E outcome \in CypherOutcomes(query) :
         LET x == execute_cypher(graph_entities, graph_rels, query, outcome)
         IN  /\ graph_entities' = x.G
             /\ graph_rels' = x.R
             /\ response' = [op |-> "execute_cypher", query |-> query,
                             raised |-> x.raised, results |-> x.results]
    /\ UNCHANGED <<build_progress, tasks, vector_rows, llm, conv_vars, fn_vars, request, nl_query>>

NextCypher == \E query \in CypherQueries : graph_execute_cypher(query)

SpecCypher == InitNL /\ [][NextCypher]_vars

\* C11: a call of execute_cypher with a query that contains a mutating verb
\* returns an error and leaves the entities and relationships as they were.
C11_ExecuteRejectsVerbs ==
    [][(response'.op = "execute_cypher" /\ HasVerb(response'.query))
        => /\ response'.raised
           /\ UNCHANGED <<graph_entities, graph_rels>>]_vars

\* ------------------------------------------------------------------------
\* The session store on its own: the operations on one key, and time
\* ------------------------------------------------------------------------
NextSession ==
    \/ session_write("s1")
    \/ session_delete("s1")
    \/ session_extend("s1")
    \/ session_get("s1")
    \/ redis_tick

SpecSession == Init /\ [][NextSession]_vars

\* C16: the remaining lifetime of a session is the full TTL less the time
\* since its last write: a write sets it to exactly TTL, and a session not
\* written for TTL is gone and get returns nothing for it.
C16_SessionTTL ==
    \A k \in DOMAIN sessions :
        /\ sessions[k].ttl = TTL - sessions[k].idle
        /\ sessions[k].idle < TTL

\* ------------------------------------------------------------------------
\* One session that has been given messages, and the messages and resets
\* that follow
\* ------------------------------------------------------------------------
\* the history of a session that was given n messages, a user's and the
\* assistant's in turn
GivenHistory(n) ==
    [i \in 1..n |-> [role |-> IF i % 2 = 1 THEN "user" ELSE "assistant", number |-> i]]

\* the session in the middle of a flow
GivenState(n) ==
    [NewState("s1") EXCEPT !.current_intent = "claim", !.current_node_id = "c1",
                           !.collected_values = SetValue(NoValues, "product_type", "optA"),
                           !.conversation_history = GivenHistory(n)]

InitMessages ==
    /\ build_progress = << >>
    /\ tasks = [i \in TaskIds |-> NoTask]
    /\ graph_entities = {}
    /\ graph_rels = {}
    /\ vector_rows = EmptyBag
    /\ llm = [t \in Texts |-> Ans0]
    /\ response = NoResponse
    /\ request = IdleRequest(0)
    /\ nl_query = NoQuery
    /\ turns = [i \in ChatSlots |-> NoTurn]
    /\ flow = NoFlow
    /\ SearchIdle
    /\ \/ sessions = << >>
       \/ \E n \in (HistoryLimit - MaxAdded)..HistoryLimit :
             sessions = save_state(<< >>, GivenState(n), TRUE)

NextMessages ==
    \/ \E role \in {"user", "assistant"} : session_add_message("s1", role)
    \/ session_reset("s1")

SpecMessages == InitMessages /\ [][NextMessages]_vars

\* C26: after any sequence of add_message calls the history of a session
\* holds at most 50 messages, and they are the 50 most recently added (all
\* of them when fewer were added), in the order they were added.
C26_HistoryKeepsLast50 ==
    \A k \in DOMAIN sessions :
        LET history == get_session(sessions, k).conversation_history
            n == LastNumber(history)
        IN  /\ Len(history) <= HistoryLimit
            /\ Len(history) = IF n < HistoryLimit THEN n ELSE HistoryLimit
            /\ \A i \in DOMAIN history : history[i].number = n - Len(history) + i

\* more than 50 messages were added and the oldest ones are gone
C26_Witness ==
    /\ HasSession(sessions, "s1")
    /\ LET history == get_session(sessions, "s1").conversation_history
       IN  Len(history) = HistoryLimit /\ history[1].number > 1

WalkEdges ==
    { [from |-> a, to |-> b, kind |-> "NEXT", when |-> NoneVal] :
        a \in ConditionIds, b \in ConditionIds }
    \cup { [from |-> "cond_product", to |-> "c2", kind |-> "BRANCH",
            when |-> [key |-> "product_type", value |-> v]] : v \in {"optA", "optB"} }

WalkFlows ==
    { [intents |-> {"claim"}, conditions |-> ConditionIds, requires |-> req,
       edges |-> SetToSeq(es), actions |-> {}] :
        req \in { << "cond_product" >>, << "c1", "cond_product" >> }, es \in SUBSET WalkEdges }

WalkValues ==
    { [k \in ks |-> "optA"] : ks \in SUBSET {"product_type", "claim_reason", "subscription_period"} }

InitWalk ==
    /\ build_progress = << >>
    /\ tasks = [i \in TaskIds |-> NoTask]
    /\ graph_entities = {}
    /\ graph_rels = {}
    /\ vector_rows = EmptyBag
    /\ llm = [t \in Texts |-> Ans0]
    /\ response = NoResponse
    /\ request = IdleRequest(0)
    /\ nl_query = NoQuery
    /\ sessions = << >>
    /\ turns = [i \in ChatSlots |-> NoTurn]
    /\ flow \in WalkFlows
    /\ SearchIdle

\* _check_conditions searches the flow for the collected values of a session
flow_walk(values) ==
    /\ response' = [op |-> "walk", values |-> values,
                    walk |-> FindUnfulfilled(flow, values, "claim")]
    /\ UNCHANGED <<fn_vars, build_progress, tasks, graph_entities, graph_rels, vector_rows, llm,
                   request, nl_query, sessions, turns, flow>>

NextWalk == \E values \in WalkValues : flow_walk(values)

SpecWalk == InitWalk /\ [][NextWalk]_vars

\* C17: the search visits each condition at most once and halts within N
\* steps, N the number of conditions, also when the edges form cycles.
C17_WalkTerminates ==
    response.op = "walk" =>
        /\ Len(response.walk.trace) <= Cardinality(flow.conditions)
        /\ \A i, j \in 1..Len(response.walk.trace) :
              response.walk.trace[i] = response.walk.trace[j] => i = j

\* a walk over a flow with a cycle among collected conditions went round it
C17_Witness ==
    /\ response.op = "walk"
    /\ \E i, j \in 1..Len(flow.edges) :
          /\ flow.edges[i].from = flow.edges[j].to
          /\ flow.edges[i].to = flow.edges[j].from
          /\ flow.edges[i].from # flow.edges[i].to
          /\ {flow.edges[i].from, flow.edges[i].to} \subseteq response.walk.visited
          /\ ConditionName(flow.edges[i].from) \in DOMAIN response.values
          /\ ConditionName(flow.edges[i].to) \in DOMAIN response.values
    /\ Len(response.walk.trace) = 3

\* ------------------------------------------------------------------------
\* get_next_conditions (checked under SpecBranch): every list of up to
\* MaxEdges edges that leave cond_product or c1, for every set of collected
\* values and intent
\* ------------------------------------------------------------------------
MaxEdges == 3

BranchEdges ==
    { [from |-> "cond_product", to |-> "c1", kind |-> "NEXT", when |-> NoneVal],
      [from |-> "c1", to |-> "c2", kind |-> "NEXT", when |-> NoneVal],
      [from |-> "cond_product", to |-> "c2", kind |-> "BRANCH",
       when |-> [key |-> "product_type", value |-> "optA"]],
      [from |-> "cond_product", to |-> "c1", kind |-> "BRANCH",
       when |-> [key |-> "intent", value |-> "claim"]],
      [from |-> "cond_product", to |-> "c2", kind |-> "BRANCH", when |-> NoExpr] }

BranchFlows ==
    { [intents |-> {"claim"}, conditions |-> ConditionIds, requires |-> << "cond_product" >>,
       edges |-> es, actions |-> {}] : es \in SeqsUpTo(BranchEdges, MaxEdges) }

BranchValues ==
    { NoValues, [k \in {"product_type"} |-> "optA"], [k \in {"product_type"} |-> "optB"],
      [k \in {"claim_reason"} |-> "optA"] }

BranchIntents == {NoneVal, "claim", "cancel"}

InitBranch ==
    /\ build_progress = << >>
    /\ tasks = [i \in TaskIds |-> NoTask]
    /\ graph_entities = {}
    /\ graph_rels = {}
    /\ vector_rows = EmptyBag
    /\ llm = [t \in Texts |-> Ans0]
    /\ response = NoResponse
    /\ request = IdleRequest(0)
    /\ nl_query = NoQuery
    /\ sessions = << >>
    /\ turns = [i \in ChatSlots |-> NoTurn]
    /\ flow \in BranchFlows
    /\ SearchIdle

\* a caller asks the flow store for the conditions after a condition; the
\* store evaluates the expressions over a dict of its own ({**values,
\* "intent": ...}), so the caller's values are what they were
flow_next_conditions(condition_id, values, intent) ==
    /\ response' = [op |-> "next", condition_id |-> condition_id, intent |-> intent,
                    given |-> values, values |-> values,
                    conditions |-> get_next_conditions(flow, condition_id, values, intent)]
    /\ UNCHANGED <<fn_vars, build_progress, tasks, graph_entities, graph_rels, vector_rows, llm,
                   request, nl_query, sessions, turns, flow>>

NextBranch ==
    \E condition_id \in ConditionIds, values \in BranchValues, intent \in BranchIntents :
        flow_next_conditions(condition_id, values, intent)

SpecBranch == InitBranch /\ [][NextBranch]_vars

\* the dict the expression of a BRANCH edge is evaluated over
EvalContext(values, intent) ==
    [k \in DOMAIN values \cup {"intent"} |-> IF k = "intent" THEN intent ELSE values[k]]

\* the edge is followed: a NEXT edge, a BRANCH edge without expression, or a
\* BRANCH edge whose expression is true over the context
Followed(e, values, intent) ==
    \/ e.kind = "NEXT"
    \/ e.kind = "BRANCH" /\ e.when = NoExpr
    \/ /\ e.kind = "BRANCH" /\ e.when # NoExpr
       /\ e.when.key \in DOMAIN EvalContext(values, intent)
       /\ EvalContext(values, intent)[e.when.key] = e.when.value

InitConv ==
    /\ build_progress = << >>
    /\ tasks = [i \in TaskIds |-> NoTask]
    /\ graph_entities = {}
    /\ graph_rels = {}
    /\ vector_rows = EmptyBag
    /\ llm = [t \in Texts |-> Ans0]
    /\ response = NoResponse
    /\ request = IdleRequest(0)
    /\ nl_query = NoQuery
    /\ sessions = << >>
    /\ turns = [i \in ChatSlots |-> NoTurn]
    /\ flow \in ConvFlows
    /\ SearchIdle

NextConv ==
    \/ \E i \in ChatSlots, session_id \in {NoneVal} \cup SessionIds :
          chat_arrive(i, session_id)
    \/ \E i \in ChatSlots, message \in ChatMessages, selected_option \in SelectedOptions :
          chat(i, message, selected_option)
    \/ \E i \in ChatSlots : chat_analyze_message(i)
    \/ \E i \in ChatSlots : chat_check_conditions(i)
    \/ \E i \in ChatSlots : chat_clarify(i)
    \/ \E i \in ChatSlots : chat_execute_action(i)
    \/ \E i \in ChatSlots : chat_generate_response(i)
    \/ \E i \in ChatSlots : chat_respond(i)
    \/ \E condition_id \in ConditionIds : flow_delete_condition(condition_id)
    \/ \E session_id \in SessionIds : store_set_document_context(session_id)

SpecConv == InitConv /\ [][NextConv]_vars

\* the fields of a session that C12 names
TurnFields(st) == << st.current_intent, st.current_node_id, st.collected_values >>

WorkflowEdges ==
    { << "analyze_message", "check_conditions" >>, << "check_conditions", "clarify" >>,
      << "check_conditions", "execute_action" >>, << "check_conditions", "END" >>,
      << "clarify", "END" >>, << "execute_action", "generate_response" >>,
      << "generate_response", "END" >> }

FollowsWorkflow(path) ==
    /\ path[1] = "analyze_message"
    /\ \A k \in 1..(Len(path) - 1) : << path[k], path[k + 1] >> \in WorkflowEdges
    /\ \A k, n \in 1..Len(path) : (path[k] = "clarify" /\ k < n) => path[n] # "execute_action"

\* C13: every turn starts in analyze and follows only the edges of the
\* workflow, never execute after clarify, and every turn that has answered
\* has reached END.
C13_WorkflowPath ==
    /\ \A i \in ChatSlots : InTurn(turns[i]) => FollowsWorkflow(turns[i].path)
    /\ response.op = "chat" =>
          /\ FollowsWorkflow(response.path)
          /\ response.path[Len(response.path)] = "END"

\* C14: a turn in which a node failed (it recorded an error, or its
\* exception left the workflow) answers with a non-empty message and
\* is_complete = true, and the session can be read afterwards.
C14_NodeFailureAnswer ==
    (response.op = "chat" /\ response.error) =>
        /\ response.message # ""
        /\ response.is_complete
        /\ HasSession(sessions, response.session_id)

\* C15: a message without selected_option on a session whose current_intent
\* and document_context are set is not classified again, keeps the
\* document_context, asks nothing and ends with a complete answer.
C15_FollowUp ==
    (/\ response.op = "chat"
     /\ response.input.selected_option = NoneVal
     /\ response.input.current_intent # NoneVal
     /\ response.input.document_context # NoneVal) =>
        /\ ~ response.classified
        /\ response.document_context = response.input.document_context
        /\ ~ response.needs_input
        /\ response.is_complete

\* the messages a turn adds: the user's, then the assistant's when the turn
\* has a response message
TurnMessages(t) ==
    IF t.state.response_message # "" THEN << "user", "assistant" >> ELSE << "user" >>

\* C30: when process_message has completed a turn normally, the stored
\* conversation history of the session is the history before the turn's
\* messages were added followed by the user's message and the assistant's
\* response: the save that ends the turn loses none of them (checked under
\* SpecConv).
C30_TurnMessagesStored ==
    [][\A i \in ChatSlots :
          (turns[i].pc = "END" /\ turns'[i].pc = "idle"
              /\ HasSession(sessions, turns[i].session_id))
              => /\ HasSession(sessions', turns[i].session_id)
                 /\ get_session(sessions', turns[i].session_id).conversation_history
                        = get_session(sessions, turns[i].session_id).conversation_history
                             \o TurnMessages(turns[i])]_vars

\* the conditions one edge away from a set of conditions: the targets of
\* their NEXT edges and of their BRANCH edges whose expression holds
NextConditions(F, values, intent, from) ==
    { F.edges[k].to : k \in { n \in DOMAIN F.edges :
          /\ F.edges[n].from \in from
          /\ F.edges[n].to \in F.conditions
          /\ ((F.edges[n].kind = "BRANCH" /\ F.edges[n].when # NoExpr) =>
                 evaluate_condition(F.edges[n].when, values, intent)) } }

RECURSIVE ReachableConditions(_, _, _, _)
ReachableConditions(F, values, intent, seen) ==
    LET more == seen \cup NextConditions(F, values, intent, seen)
    IN  IF more = seen THEN seen ELSE ReachableConditions(F, values, intent, more)

\* the conditions reachable from the first required condition of the intent
FromFirstRequired(F, values, intent) ==
    LET required == get_conditions_for_intent(F)
    IN  IF required = << >> THEN {}
        ELSE ReachableConditions(F, values, intent, {Head(required)})

Uncollected(F, values, intent) ==
    { c \in FromFirstRequired(F, values, intent) : ConditionName(c) \notin DOMAIN values }

\* C31: with an intent set, check_conditions routes to execute only when
\* every condition reachable from the first required condition of the intent
\* (over NEXT edges and BRANCH edges whose expression holds) has its name in
\* collected_values; otherwise it routes to clarify with current_node_id the
\* first such uncollected condition of the depth-first walk (checked under
\* SpecConv).
C31_CheckConditions ==
    [][\A i \in ChatSlots :
          (/\ turns[i].pc = "check_conditions"
           /\ turns[i].state.current_intent # NoneVal
           /\ turns'[i].pc \in {"clarify", "execute_action"})
          => LET st == turns[i].state
                 open == Uncollected(flow, st.collected_values, st.current_intent)
                 walk == FindUnfulfilled(flow, st.collected_values, st.current_intent)
             IN  IF open = {}
                 THEN turns'[i].pc = "execute_action"
                 ELSE /\ turns'[i].pc = "clarify"
                      /\ turns'[i].state.current_node_id = walk.found
                      /\ walk.found \in open]_vars

\* the fields of a session that C38 names
SessionFields(st) ==
    << st.current_intent, st.current_node_id, st.collected_values, st.document_context,
       st.conversation_history >>

\* the step ends the turn of slot i, and the workflow of the turn raised
FailedTurnEnds(i) ==
    /\ InTurn(turns[i]) /\ turns'[i].pc = "idle"
    /\ turns[i].state.raised \/ response'.raised

\* C38: when the workflow of a turn raises out of workflow.invoke, the
\* stored session is exactly the session the turn loaded (or created) when
\* it started: nothing of the failed turn is saved (checked under SpecConv).
C38_FailedTurnSavesNothing ==
    [][\A i \in ChatSlots :
          FailedTurnEnds(i) =>
              /\ HasSession(sessions', turns[i].session_id)
              /\ SessionFields(get_session(sessions', turns[i].session_id))
                     = SessionFields(turns[i].session_state)]_vars

\* a turn has failed after its analysis had classified the message and its
\* check had chosen a condition to ask, on a session that is stored
C38_Witness ==
    /\ response.op = "chat" /\ response.raised
    /\ response.classified
    /\ Len(response.path) >= 3
    /\ HasSession(sessions, response.session_id)

\* ------------------------------------------------------------------------
\* The original query of a session (checked under SpecQuery): chat requests
\* with two different questions on the sessions of the store, and resets
\* ------------------------------------------------------------------------
QueryMessages ==
    { [text |-> "", intent_kw |-> FALSE, product_kw |-> FALSE] }
    \cup { [text |-> t, intent_kw |-> ik, product_kw |-> FALSE] :
               t \in {"q", "q2"}, ik \in BOOLEAN }

NextQuery ==
    \/ \E i \in ChatSlots, session_id \in {NoneVal} \cup SessionIds :
          chat_arrive(i, session_id)
    \/ \E i \in ChatSlots, message \in QueryMessages, selected_option \in SelectedOptions :
          chat(i, message, selected_option)
    \/ \E i \in ChatSlots : chat_analyze_message(i)
    \/ \E i \in ChatSlots : chat_check_conditions(i)
    \/ \E i \in ChatSlots : chat_clarify(i)
    \/ \E i \in ChatSlots : chat_execute_action(i)
    \/ \E i \in ChatSlots : chat_generate_response(i)
    \/ \E i \in ChatSlots : chat_respond(i)
    \/ \E session_id \in SessionIds : session_reset(session_id)

SpecQuery == InitConv /\ [][NextQuery]_vars

\* the session holds an original query
HoldsQuery(state) == "__original_query__" \in DOMAIN state.collected_values
OriginalQuery(state) == state.collected_values["__original_query__"]

\* C35: once a session holds an original query, no step other than a reset
\* of the session replaces it, and every turn that reaches execute on a
\* session it loaded with an original query searches with that query and
\* not with the message of the turn (checked under SpecQuery).
C35_OriginalQueryKept ==
    [][/\ \A s \in SessionIds :
             (/\ HasSession(sessions, s)
              /\ HoldsQuery(get_session(sessions, s))
              /\ ~ session_reset(s))
             => /\ HasSession(sessions', s)
                /\ HoldsQuery(get_session(sessions', s))
                /\ OriginalQuery(get_session(sessions', s))
                       = OriginalQuery(get_session(sessions, s))
       /\ \A i \in ChatSlots :
             (turns'[i].pc = "execute_action" /\ HoldsQuery(turns'[i].session_state))
             => build_search_query(turns'[i].state) = OriginalQuery(turns'[i].session_state)]_vars

\* a turn with another question is about to search on a session that was
\* loaded with its original query
C35_Witness ==
    \E i \in ChatSlots :
        /\ turns[i].pc = "execute_action"
        /\ HoldsQuery(turns[i].session_state)
        /\ turns[i].state.user_message.text \notin {"", OriginalQuery(turns[i].session_state)}

\* ------------------------------------------------------------------------
\* Slot collection (checked under SpecSlots): chat requests on the sessions
\* of the store over a flow that does not change
\* ------------------------------------------------------------------------
NextSlots ==
    \/ \E i \in ChatSlots, session_id \in {NoneVal} \cup SessionIds :
          chat_arrive(i, session_id)
    \/ \E i \in ChatSlots, message \in ChatMessages, selected_option \in SelectedOptions :
          chat(i, message, selected_option)
    \/ \E i \in ChatSlots : chat_analyze_message(i)
    \/ \E i \in ChatSlots : chat_check_conditions(i)
    \/ \E i \in ChatSlots : chat_clarify(i)
    \/ \E i \in ChatSlots : chat_execute_action(i)
    \/ \E i \in ChatSlots : chat_generate_response(i)
    \/ \E i \in ChatSlots : chat_respond(i)

SpecSlots == InitConv /\ [][NextSlots]_vars

\* the turn answers the clarification the session asked last
AnswersAsked(t) == t.state.selected_option # NoneVal /\ t.state.current_node_id # NoneVal

\* the names of the conditions of the flow that are collected
CollectedConditions(F, values) ==
    { c \in F.conditions : ConditionName(c) \in DOMAIN values }

BackupSeeds ==
    { [entities |-> x.entities, relationships |-> x.relationships, page |-> pg] :
        x \in { ExtractAll(a, "docA", <<"docA", "seg", 0>>) : a \in Answers },
        pg \in {NoPage, 1} }

InitBackup ==
    /\ build_progress = << >>
    /\ tasks = [i \in TaskIds |-> NoTask]
    /\ \E x \in BackupSeeds :
          LET G == create_entities_batch({}, x.entities, "ds1")
          IN  /\ graph_entities = SetSourcePage(G, "ds1", <<"docA", "seg", 0>>, x.page)
              /\ graph_rels = create_relationships_batch(G, {}, x.relationships, "ds1")
              /\ vector_rows = insert_entities_batch(EmptyBag, x.entities, "ds1")
    /\ llm = [t \in Texts |-> Ans0]
    /\ response = NoResponse
    /\ request = IdleRequest(0)
    /\ nl_query = NoQuery
    /\ ConvIdle
    /\ SearchIdle

\* the imports lines 148-155 are to refuse: no metadata or no entities, or
\* no dataset id in the file and none given
RefusedImport(file, target) ==
    /\ file \in InvalidFiles
    /\ file = JsonFile(HandWritten) => target = NoneVal

NextBackup ==
    \/ \E d \in Datasets : backup_export(d)
    \/ backup_restore
    \/ import_dataset_vector({RequestOk})
    \/ \E file \in InvalidFiles \cup {BadJson}, target \in Datasets \cup {NoneVal},
          merge \in BOOLEAN :
          /\ file = BadJson \/ RefusedImport(file, target)
          /\ import_dataset(file, target, merge, {RequestOk})
    \/ \E d \in Datasets, entities \in EntityLists, include_vectors \in BOOLEAN :
          ingest_entities(d, entities, include_vectors, {RequestOk})
    \/ ingest_entities_vector({RequestOk})
    \/ \E d \in Datasets : delete_dataset(d, {RequestOk})

SpecBackup == InitBackup /\ [][NextBackup]_vars

\* the entities and the relationships (endpoints and type) of an exported
\* document, and those of a dataset in the stores
FileEntities(data) == { data.entities[k] : k \in 1..Len(data.entities) }
FileRelationships(data) ==
    { << data.relationships[k].source_id, data.relationships[k].target_id,
         data.relationships[k].properties.type >> : k \in 1..Len(data.relationships) }
StoredEntities(G, d) == { x \in G : x.dataset_id = d }
StoredRelationships(G, R, d) ==
    { << r.source, r.target, r.type >> :
        r \in { y \in R : InDataset(G, y.source, d) /\ InDataset(G, y.target, d) } }

\* the step in which the import of the file just exported answers
RestoreAnswers ==
    /\ response.op = "export" /\ response'.op = "import"
    /\ request.pc = "await_vec" \/ backup_restore

\* C18: importing the export of a dataset D with merge=false restores D in
\* the graph store: the same entities with equal stored attributes and the
\* same relationships between the same endpoints with the same type.
C18_RoundTrip ==
    [][RestoreAnswers =>
          LET d == response.dataset_id
          IN  /\ StoredEntities(graph_entities', d) = FileEntities(response.data)
              /\ StoredRelationships(graph_entities', graph_rels', d)
                     = FileRelationships(response.data)]_vars

\* C19: an import whose payload has no metadata or no entities, or for which
\* no dataset id can be determined, is answered with HTTP 400 and changes
\* neither store.
C19_InvalidImport400 ==
    [][\A file \in InvalidFiles, target \in Datasets \cup {NoneVal}, merge \in BOOLEAN :
          (RefusedImport(file, target) /\ import_dataset(file, target, merge, {RequestOk}))
              => /\ response'.status_code = 400
                 /\ UNCHANGED <<graph_entities, graph_rels, vector_rows>>]_vars

\* an import whose payload passes the validation of lines 148-155, and the
\* dataset it is written to
ValidImport(file, target) ==
    /\ file.json
    /\ {"metadata", "entities"} \subseteq DOMAIN file.data
    /\ target # NoneVal \/ file.data.metadata.dataset_id # NoneVal

ImportTarget(file, target) ==
    IF target # NoneVal THEN target ELSE file.data.metadata.dataset_id

\* what the stores held for the dataset is still there after the step
KeepsDataset(d) ==
    /\ StoredEntities(graph_entities, d) \subseteq graph_entities'
    /\ { r \in graph_rels : InDataset(graph_entities, r.source, d)
                              /\ InDataset(graph_entities, r.target, d) } \subseteq graph_rels'
    /\ \A row \in BagToSet(vector_rows) :
          row.dataset_id = d => CopiesIn(row, vector_rows') >= CopiesIn(row, vector_rows)

\* C34: an import with merge=false is all-or-nothing: when it fails after
\* its payload was validated and the old contents were cleared (at the
\* entity write, at the embedding, at the construction or the write of the
\* relationships), the previous contents of the target dataset are still in
\* both stores.  The import fails in the step (status 500), or it waits for
\* the embeddings, whose failure answers 500 and changes nothing more
\* (checked under SpecStores).
C34_ImportAllOrNothing ==
    [][\A file \in ImportFiles, target \in Datasets \cup {NoneVal}, f \in RequestFaults :
          (/\ ValidImport(file, target)
           /\ f.gdel_ok /\ f.vdel_ok
           /\ import_dataset(file, target, FALSE, {f})
           /\ response'.status_code = 500 \/ request'.pc = "await_vec")
          => KeepsDataset(ImportTarget(file, target))]_vars

\* ------------------------------------------------------------------------
\* Search requests, the stores answering with any lists they can return
\* ------------------------------------------------------------------------
NextSearch ==
    \/ \E mode \in SearchModes, top_k \in TopKs : hybrid_search(mode, top_k)
    \/ hybrid_search_vector

SpecSearch == Init /\ [][NextSearch]_vars

HybridDone == search.pc = "done" /\ search.mode = "hybrid"

IdsOf(list) == {list[i].id : i \in DOMAIN list}

\* the rank (from 0) of an id in a list: where it comes first
RankIn(list, id) == (CHOOSE i \in DOMAIN list :
                        list[i].id = id /\ \A j \in DOMAIN list : list[j].id = id => i <= j) - 1

\* the RRF score of an id: over the lists that contain it, the sum of
\* 1 / (K + rank + 1)
RRF(id) ==
    (IF id \in IdsOf(search.vector_results)
     THEN rrf_score(rrf_k, RankIn(search.vector_results, id)) ELSE 0)
    + (IF id \in IdsOf(search.graph_results)
       THEN rrf_score(rrf_k, RankIn(search.graph_results, id)) ELSE 0)

SameIds(a, b) == Len(a) = Len(b) /\ \A i \in DOMAIN a : a[i].id = b[i].id

\* C22: in hybrid mode the returned items are ordered by RRF score
\* descending and are the top_k best, each id appearing once; when the
\* vector list and the graph list are identical, the hybrid order equals the
\* vector order.
C22_HybridOrder ==
    HybridDone =>
        LET r == search.results
            all == IdsOf(search.vector_results) \cup IdsOf(search.graph_results)
        IN  /\ \A i, j \in DOMAIN r : i < j => /\ RRF(r[i].id) >= RRF(r[j].id)
                                               /\ r[i].id # r[j].id
            /\ Len(r) = IF Cardinality(all) < search.top_k THEN Cardinality(all)
                         ELSE search.top_k
            /\ \A id \in all \ IdsOf(r) : \A i \in DOMAIN r : RRF(r[i].id) >= RRF(id)
            /\ SameIds(search.vector_results, search.graph_results)
                  => SameIds(r, SubSeq(search.vector_results, 1, Len(r)))

\* C23: a hybrid-mode result item carries source=hybrid if and only if its
\* id is in both the vector list and the graph list; an item of one list
\* only carries that list's name, also when the list holds the id more than
\* once.
C23_SourceLabel ==
    HybridDone =>
        \A i \in DOMAIN search.results :
            LET item == search.results[i]
                in_vector == item.id \in IdsOf(search.vector_results)
                in_graph == item.id \in IdsOf(search.graph_results)
            IN  item.source = CASE in_vector /\ in_graph -> "hybrid"
                                [] in_vector -> "vector"
                                [] OTHER -> "graph"

\* the place of an id in the vector list; an id that is not in it ranks
\* below every item of the list
VectorRank(id) ==
    IF id \in IdsOf(search.vector_results) THEN RankIn(search.vector_results, id)
    ELSE Len(search.vector_results)

\* the graph confidence of an id, none counting as the lowest
GraphConfidence(id) ==
    IF id \in IdsOf(search.graph_results)
    THEN search.graph_results[RankIn(search.graph_results, id) + 1].score
    ELSE 0

\* C24: of two hybrid result items with equal RRF scores the one with the
\* better rank in the vector list comes first (an item absent from the vector
\* list ranking below every item in it); if that does not decide, the one
\* with the higher graph confidence comes first.
C24_TieBreak ==
    HybridDone =>
        \A i, j \in DOMAIN search.results :
            LET a == search.results[i]
                b == search.results[j]
            IN  (i < j /\ a.score = b.score)
                    => \/ VectorRank(a.id) < VectorRank(b.id)
                       \/ /\ VectorRank(a.id) = VectorRank(b.id)
                          /\ GraphConfidence(a.id) >= GraphConfidence(b.id)

\* two items with equal scores were returned, the second of them the better
\* one in the graph list
C24_Witness ==
    /\ HybridDone
    /\ \E i, j \in DOMAIN search.results :
          LET a == search.results[i]
              b == search.results[j]
          IN  /\ i < j /\ a.score = b.score
              /\ b.id \in IdsOf(search.graph_results)
              /\ a.id \in IdsOf(search.graph_results)
                    => RankIn(search.graph_results, b.id) < RankIn(search.graph_results, a.id)

\* ------------------------------------------------------------------------
\* match_intent queries on every flow store of two intents
\* ------------------------------------------------------------------------
NextIntent ==
    \E nodes \in IntentStores, user_message \in UserMessages :
        flow_match_intent(nodes, user_message)

SpecIntent == Init /\ [][NextIntent]_vars

\* the active intents with a keyword contained in the message, letter case
\* disregarded
Candidates(nodes, user_message) ==
    {n \in nodes : n.is_active
                    /\ \E i \in DOMAIN n.keywords :
                          Contains(LowerStr(user_message), LowerStr(n.keywords[i]))}

\* C28: match_intent(message) returns the active intent of highest priority
\* among those having a keyword contained in the message regardless of
\* letter case, and returns nothing when no active intent has such a keyword.
C28_MatchIntent ==
    matching.pc = "done" =>
        LET candidates == Candidates(matching.nodes, matching.user_message)
        IN  IF candidates = {} THEN matching.answer = {}
            ELSE \E best \in candidates :
                    /\ matching.answer = {best}
                    /\ \A n \in candidates : best.priority >= n.priority

\* ------------------------------------------------------------------------
\* Properties of the registry (checked under Spec)
\* ------------------------------------------------------------------------

\* C5: a start request for a dataset whose progress record has status
\* building is answered 409; while the record says building no step
\* schedules a task for the dataset, and the rejected request leaves the
\* tasks and the progress registry as they were.
C5_StartRejectedWhileBuilding ==
    [][\A d \in Datasets :
          IsBuilding(build_progress, d) =>
            /\ \A i \in TaskIds :
                  (tasks[i].pc = "unused" /\ tasks'[i].pc # "unused")
                      => tasks'[i].dataset_id # d
            /\ (response' # response /\ response'.op = "start" /\ response'.dataset_id = d)
                  => /\ response'.status_code = 409
                     /\ tasks' = tasks
                     /\ build_progress' = build_progress]_vars

\* a start request was answered 409 while a build of the dataset is running
C5_Witness ==
    \E d \in Datasets :
        /\ response = [op |-> "start", dataset_id |-> d, status_code |-> 409]
        /\ IsBuilding(build_progress, d)
        /\ \E i \in TaskIds : Running(tasks[i]) /\ tasks[i].dataset_id = d

RunningFor(d) == {i \in TaskIds : Running(tasks[i]) /\ tasks[i].dataset_id = d}

\* C6: single writer per dataset: at any time at most one background task
\* (build or page mapping) is running for a dataset.
C6_SingleWriter == \A d \in Datasets : Cardinality(RunningFor(d)) <= 1

\* C7: clearing the progress of a dataset whose status is building is a
\* no-op: no step drops the record of a dataset while its status is building.
C7_ClearWhileBuildingIsNoOp ==
    [][\A d \in Datasets :
          IsBuilding(build_progress, d) => d \in DOMAIN build_progress']_vars

Counters(p) ==
    << p.total_documents, p.completed_documents, p.total_segments, p.completed_segments,
       p.skipped_segments, p.entities_extracted, p.relationships_extracted >>

\* C8: within one build, from its transition to building to its terminal
\* state, none of the seven counters get_progress returns ever decreases.
C8_CountersMonotone ==
    [][\A i \in TaskIds :
          (/\ Running(tasks[i]) /\ tasks[i].kind = "build"
           /\ (Running(tasks'[i]) \/ Ended(tasks'[i])))
          => LET d == tasks[i].dataset_id
                 before == Counters(get_progress(build_progress, d))
                 after == Counters(get_progress(build_progress', d))
             IN  \A k \in 1..Len(before) : after[k] >= before[k]]_vars

\* C9: every build task that starts sets the status of its dataset to
\* completed or to error: a build task that has ended has stored one of the two.
C9_BuildSetsTerminalStatus ==
    \A i \in TaskIds :
        (Ended(tasks[i]) /\ tasks[i].kind = "build")
            => tasks[i].final_status \in {"completed", "error"}

====
